---------------------------- MODULE Spec2Model ----------------------------
(***************************************************************************)
(* Verification development for the GPU neighbour-list tree kernels        *)
(* (NeighborListGPUTree.cu, src/unnamed/part_000):                         *)
(*   - gpu_nlist_gen_hierarchy_kernel  (Karras radix-tree topology)        *)
(*   - gpu_nlist_bubble_aabbs_kernel   (bottom-up AABB propagation)        *)
(*   - gpu_nlist_traverse_tree_kernel  (stackless traversal)               *)
(*   - gpu_nlist_morton_codes_kernel   (Morton encoder)                    *)
(*                                                                         *)
(* Unsigned 32-bit values are represented by the signed integer with the   *)
(* same bit pattern (0xffffffff is -1), and compared with ULt; all values  *)
(* that occur are within a few units of 0 or of 2^32, so additions never   *)
(* leave that representation.                                              *)
(***************************************************************************)
EXTENDS Integers, Sequences, FiniteSets, TLC

(***************************************************************************)
(* Bounds of the build model.                                              *)
(***************************************************************************)
MaxTypes == 2
MaxLeafs == 5
MaxLeafsPerType == 4
NumLayouts == 2

(***************************************************************************)
(* Bounds of the traversal model.                                          *)
(***************************************************************************)
MaxN == 3
MaxX == 2
MaxY == 1
MaxZ == 0
MaxBuff == 1
MaxNmax == 1
TravLeafCap == 1

(***************************************************************************)
(* Bounds of the encoder model.  Fractional coordinates are integers over  *)
(* the denominator FDen.                                                   *)
(***************************************************************************)
MaxMortonN == 2
FDen == 1000000

\* leaf capacity; the header that defines the macro is not among the
\* sources, the kernels use it at part_000:303, 487, 499
PARTICLES_PER_LEAF == 4

\* codes the leaves may carry (any 30-bit value is possible; these give
\* common prefixes of 29, 30 and 31 bits)
CodeSet == {0, 1, 2, 4}

\* what device memory holds before a rebuild writes it: profile 0 is a
\* zero-filled allocation, the others what an earlier rebuild may have left
NumStale == 2
MaxPass == 2
MaxSortN == 3
NumPlacements == 2
MaxSplitLen == 6
MaxSplitCode == 5

\* number of slots of the per-node arrays (allocation; one more than the
\* largest number of leaves)
Cap == MaxLeafs + 1

VARIABLES
    \* ---- inputs of a rebuild
    ntypes,            \* number of particle types
    d_num_per_type,    \* particles per type (sequence, 1-based = type+1)
    nleafs,            \* total number of leaves
    d_morton_codes_red, \* per-leaf representative code (the merge kernel's output,
                       \* the hierarchy kernel's d_morton_codes argument)
    \* ---- hierarchy generation
    phase,             \* "hierarchy", "bubble"
    hier_done,         \* hierarchy threads (internal-node ids) that ran
    d_leaf_parents,    \* [0..Cap-1 -> node id]
    d_node_parents,    \* [0..Cap-1 -> node id]
    d_node_children,   \* [0..Cap-1 -> <<x, y>>]
    hier_writes,       \* set of <<array, index, thread>> of writes performed
    \* ---- bounding-box propagation
    d_node_locks,      \* [0..Cap-1 -> Nat]
    d_tree_aabbs,      \* [0..2*Cap-1 -> [upper |-> <<x,y,z,w>>, lower |-> <<x,y,z,w>>]]
    aabb_writes,       \* set of <<internal node, thread>> of AABB writes
    aabb_nwrites,      \* [0..Cap-1 -> number of writes of the node's AABB]
    bpc,               \* [leaf thread -> "start", "add", "merge", "done"]
    cur_child,         \* per thread
    cur_parent,        \* per thread
    cur_box,           \* per thread: [upper, lower]
    lock_key           \* per thread

buildVars == <<ntypes, d_num_per_type, nleafs, d_morton_codes_red, phase, hier_done,
               d_leaf_parents, d_node_parents, d_node_children, hier_writes,
               d_node_locks, d_tree_aabbs, aabb_writes, aabb_nwrites,
               bpc, cur_child, cur_parent, cur_box, lock_key>>

VARIABLES
    \* ---- inputs of the traversal
    N,                 \* number of particles
    d_pos,             \* [particle -> <<x, y, z, type>>]
    d_body,            \* [particle -> body id]
    filter_body,
    d_r_cut,           \* [type pair index -> cutoff]
    r_buff,
    d_Nmax,            \* per type (sequence)
    d_head_list,       \* [particle -> first slot of its list]
    d_image_list,      \* sequence of image vectors, the primary first
    nimages,
    d_aabb_trees,      \* per type (sequence): [num_nodes, node_head]
    d_aabb_node_bounds,    \* [node -> [upper |-> <<x,y,z,skip>>, lower |-> <<x,y,z,np>>]]
    d_aabb_node_head_idx,  \* [node -> first slot of the leaf in the leaf arrays]
    d_aabb_leaf_particles, \* [slot -> particle]
    d_leaf_xyzf,       \* [slot -> <<x, y, z, particle>>]
    d_leaf_db,         \* [slot -> <<diameter, body>>]
    \* ---- outputs of the traversal
    d_nlist,
    d_n_neigh,
    d_last_updated_pos,
    d_conditions,      \* per type (sequence)
    trav_done,         \* traversal threads that ran in the current launch
    trav_pass,         \* number of launches so far
    counted,           \* [particle -> sequence of <<j, image>> counted by its thread]
    stored,            \* [particle -> set of d_nlist slots its thread stored to]
    trav_prior         \* what the output arrays held when the current launch began

travVars == <<N, d_pos, d_body, filter_body, d_r_cut, r_buff, d_Nmax, d_head_list,
              d_image_list, nimages, d_aabb_trees, d_aabb_node_bounds,
              d_aabb_node_head_idx, d_aabb_leaf_particles, d_leaf_xyzf, d_leaf_db,
              d_nlist, d_n_neigh, d_last_updated_pos, d_conditions, trav_done,
              trav_pass, counted, stored, trav_prior>>

VARIABLES
    \* ---- Morton encoder
    periodic,          \* <<x, y, z>> periodicity flags of the box
    d_type_head,       \* per type (sequence): first slot of the type's segment
    d_map_p_global_tree,   \* [particle -> rank within its type]
    d_morton_codes,    \* [slot -> code]
    d_leaf_particles,  \* [slot -> particle]
    morton_done,       \* encoder threads that ran
    morton_writes      \* set of <<thread, leaf slot>> of writes performed

mortonVars == <<periodic, d_type_head, d_map_p_global_tree, d_morton_codes,
                d_leaf_particles, morton_done, morton_writes>>

VARIABLES
    hier_span,         \* [hierarchy thread -> the type and leaf span it computed]
    \* ---- the sort of the codes
    sort_cur_type,     \* loop counter of gpu_nlist_morton_sort
    sort_input,        \* [slot -> <<code, particle>>] as the sort found them
    \* ---- the leaf merge
    d_leaf_offset,     \* per type (sequence)
    merge_done,        \* merge threads that ran
    merge_span,        \* [merge thread -> the type and slot range it computed]
    \* ---- a device function called on its own
    call_args,         \* the arguments
    call_result        \* << >> before the call, the value it returned after

sortVars == <<sort_cur_type, sort_input>>

mergeVars == <<d_leaf_offset, merge_done, merge_span>>

callVars == <<call_args, call_result>>

stageVars == <<hier_span, sortVars, mergeVars, callVars>>

vars == <<buildVars, travVars, mortonVars, stageVars>>

(***************************************************************************)
(* Bit arithmetic                                                          *)
(***************************************************************************)
RECURSIVE BitLen(_)
BitLen(x) == IF x = 0 THEN 0 ELSE 1 + BitLen(x \div 2)

\* __clz of a non-negative 32-bit value
Clz(x) == 32 - BitLen(x)

RECURSIVE Xor(_, _)
Xor(a, b) == IF a = 0 THEN b
             ELSE IF b = 0 THEN a
             ELSE (((a % 2) + (b % 2)) % 2) + (2 * Xor(a \div 2, b \div 2))

\* unsigned < on 32-bit patterns held as signed integers
ULt(a, b) == IF (a >= 0) = (b >= 0) THEN a < b ELSE b < 0

\* the element of a one-element set; Only({e : x \in {v}}) computes v once
\* and names it x in e, the way a local variable names a computed value
Only(S) == CHOOSE v \in S : TRUE

Min(a, b) == IF a < b THEN a ELSE b
Max(a, b) == IF a > b THEN a ELSE b

(***************************************************************************)
(* delta, determineRange, findSplit                                        *)
(***************************************************************************)
delta(codes, i, j, min_idx, max_idx) ==
    IF ULt(max_idx, j) \/ ULt(j, min_idx)
    THEN -1
    ELSE LET first_code == codes[i]
             last_code == codes[j]
         IN IF first_code = last_code
            THEN Clz(Xor(i, j))
            ELSE Clz(Xor(first_code, last_code))

RECURSIVE LmaxSearch(_, _, _, _, _, _, _)
LmaxSearch(codes, min_idx, max_idx, idx, d, min_prefix, lmax) ==
    IF delta(codes, idx, idx + d * lmax, min_idx, max_idx) > min_prefix
    THEN LmaxSearch(codes, min_idx, max_idx, idx, d, min_prefix, 2 * lmax)
    ELSE lmax

\* the do-while of determineRange; step is the value before the halving
RECURSIVE LenSearch(_, _, _, _, _, _, _, _)
LenSearch(codes, min_idx, max_idx, idx, d, min_prefix, len, step) ==
    LET s == step \div 2
        new_len == len + s
    IN Only({ IF s > 1
              THEN LenSearch(codes, min_idx, max_idx, idx, d, min_prefix, len2, s)
              ELSE len2 :
              len2 \in {IF delta(codes, idx, idx + d * new_len, min_idx, max_idx) > min_prefix
                        THEN new_len ELSE len} })

determineRange(codes, min_idx, max_idx, idx) ==
    LET forward_prefix == delta(codes, idx, idx + 1, min_idx, max_idx)
        backward_prefix == delta(codes, idx, idx - 1, min_idx, max_idx)
    IN Only({ Only({ Only({ Only({ IF d > 0 THEN <<idx, idx + len>> ELSE <<idx - len, idx>> :
          len \in {LenSearch(codes, min_idx, max_idx, idx, d, min_prefix, 0, lmax)} }) :
          lmax \in {LmaxSearch(codes, min_idx, max_idx, idx, d, min_prefix, 2)} }) :
          min_prefix \in {delta(codes, idx, idx - d, min_idx, max_idx)} }) :
          d \in {IF (forward_prefix - backward_prefix) > 0 THEN 1 ELSE -1} })

\* the do-while of findSplit; step is the value before the halving
RECURSIVE SplitSearch(_, _, _, _, _, _)
SplitSearch(codes, first_code, common_prefix, last, split, step) ==
    LET s == (step + 1) \div 2
        new_split == split + s
    IN Only({ IF s > 1
              THEN SplitSearch(codes, first_code, common_prefix, last, split2, s)
              ELSE split2 :
              split2 \in {IF new_split < last
                             /\ Clz(Xor(first_code, codes[new_split])) > common_prefix
                          THEN new_split ELSE split} })

\* a split that is the midpoint whatever the codes are
findSplitMid(codes, first, last) == (first + last) \div 2

\* lines 159-198
findSplit(codes, first, last) ==
    LET first_code == codes[first]
        last_code == codes[last]
    IN IF first_code = last_code
       THEN (first + last) \div 2
       ELSE Only({ SplitSearch(codes, first_code, common_prefix, last, first, last - first) :
                   common_prefix \in {Clz(Xor(first_code, last_code))} })

(***************************************************************************)
(* Host-side sizes (computed by the caller of the kernels)                 *)
(***************************************************************************)
LeafCount(num, t) == (num[t + 1] + PARTICLES_PER_LEAF - 1) \div PARTICLES_PER_LEAF

RECURSIVE LeafHead(_, _)
LeafHead(num, t) == IF t = 0 THEN 0 ELSE LeafHead(num, t - 1) + LeafCount(num, t - 1)

\* number of hierarchy threads that pass the kernel's bound, nleafs - ntypes
NumInternal == nleafs - ntypes

InternalNodes == {n \in 0..(Cap - 1) : ULt(n, NumInternal)}
Leafs == 0..(nleafs - 1)

Store(arr, i, v) == IF i \in DOMAIN arr THEN [arr EXCEPT ![i] = v] ELSE arr

(***************************************************************************)
(* gpu_nlist_gen_hierarchy_kernel                                          *)
(***************************************************************************)
\* the loop over types that finds the thread's type and leaf span
RECURSIVE TypeSearch(_, _, _, _, _)
TypeSearch(num, nt, idx, cur_type, max_prev) ==
    IF ~(cur_type < nt)
    THEN [origin |-> 0, end |-> 0, node_idx |-> idx, cur_type |-> cur_type]
    ELSE LET min_idx == max_prev
             max_idx == max_prev + (LeafCount(num, cur_type) - 1)
         IN IF ULt(idx, max_idx)
            THEN [origin |-> min_idx + cur_type, end |-> max_idx + cur_type,
                  node_idx |-> idx + cur_type, cur_type |-> cur_type]
            ELSE TypeSearch(num, nt, idx, cur_type + 1, max_idx)

\* what thread idx computes: its span, range, split and the children word
HierNode(idx) ==
    Only({ Only({ Only({
        LET first == range[1]
            last == range[2]
            left_leaf == (split = first)
            right_leaf == ((split + 1) = last)
        IN [origin |-> ts.origin, end |-> ts.end, node_idx |-> ts.node_idx,
            cur_type |-> ts.cur_type, first |-> first, last |-> last, split |-> split,
            left_leaf |-> left_leaf, right_leaf |-> right_leaf,
            children |-> << IF left_leaf THEN 2 * split + 1 ELSE 2 * (split - ts.cur_type),
                            IF right_leaf THEN 2 * (split + 1) + 1
                                          ELSE 2 * (split - ts.cur_type + 1) >>] :
        split \in {findSplit(d_morton_codes_red, range[1], range[2])} }) :
        range \in {determineRange(d_morton_codes_red, ts.origin, ts.end, ts.node_idx)} }) :
        ts \in {TypeSearch(d_num_per_type, ntypes, idx, 0, 0)} })

\* line 359: the node records itself as its parent
IsSpanRoot(node_idx, origin) == node_idx = origin

\* the stores of thread idx, in program order: <<array, index>>
HierStores(idx) ==
    Only({ << IF h.left_leaf THEN <<"leaf_parents", h.split>>
                             ELSE <<"node_parents", h.split - h.cur_type>>,
              IF h.right_leaf THEN <<"leaf_parents", h.split + 1>>
                              ELSE <<"node_parents", h.split - h.cur_type + 1>> >>
           \o (IF IsSpanRoot(h.node_idx, h.origin) THEN << <<"node_parents", idx>> >> ELSE << >>)
           \o << <<"node_children", idx>> >> :
           h \in {HierNode(idx)} })

RECURSIVE ApplyStores(_, _, _, _, _)
ApplyStores(arr, name, stores, k, v) ==
    IF k > Len(stores) THEN arr
    ELSE ApplyStores(IF stores[k][1] = name THEN Store(arr, stores[k][2], v) ELSE arr,
                     name, stores, k + 1, v)

GenHierarchy(idx) ==
    /\ phase = "hierarchy"
    /\ idx \notin hier_done
    /\ ULt(idx, NumInternal)
    /\ \E h \in {HierNode(idx)}, st \in {HierStores(idx)} :
          /\ d_leaf_parents' = ApplyStores(d_leaf_parents, "leaf_parents", st, 1, idx)
          /\ d_node_parents' = ApplyStores(d_node_parents, "node_parents", st, 1, idx)
          /\ d_node_children' = Store(d_node_children, idx, h.children)
          /\ hier_writes' = hier_writes \cup {<<st[k][1], st[k][2], idx>> : k \in 1..Len(st)}
    /\ hier_done' = hier_done \cup {idx}
    /\ UNCHANGED <<ntypes, d_num_per_type, nleafs, d_morton_codes_red, phase,
                   d_node_locks, d_tree_aabbs, aabb_writes, aabb_nwrites,
                   bpc, cur_child, cur_parent, cur_box, lock_key>>
    /\ UNCHANGED <<travVars, mortonVars, stageVars>>

(***************************************************************************)
(* gpu_nlist_bubble_aabbs: the memset of the counters and the kernel       *)
(***************************************************************************)
BubbleLaunch ==
    /\ phase = "hierarchy"
    /\ hier_done = InternalNodes
    /\ phase' = "bubble"
    /\ d_node_locks' = [n \in DOMAIN d_node_locks |->
                          IF ULt(n, NumInternal) THEN 0 ELSE d_node_locks[n]]
    /\ UNCHANGED <<ntypes, d_num_per_type, nleafs, d_morton_codes_red, hier_done,
                   d_leaf_parents, d_node_parents, d_node_children, hier_writes,
                   d_tree_aabbs, aabb_writes, aabb_nwrites,
                   bpc, cur_child, cur_parent, cur_box, lock_key>>
    /\ UNCHANGED <<travVars, mortonVars, stageVars>>

\* a key test that also takes the third arrival for the one that merges
SecondOrThirdArrival(key) == key \in {1, 2}

\* lines 601 and 637: the value the atomicAdd returned names the second arrival
SecondArrival(key) == key = 1

\* lines 578-598: load the leaf's box and parent, then the first atomicAdd.
\* The loads read the leaf slots and d_leaf_parents, which no thread of this
\* kernel writes, so they are taken together with the thread's first atomicAdd;
\* a key other than 1 ends the do-while (line 637)
BubbleStart(idx) ==
    /\ phase = "bubble"
    /\ idx < nleafs
    /\ bpc[idx] = "start"
    /\ cur_box' = [cur_box EXCEPT ![idx] =
                     [upper |-> [d_tree_aabbs[idx].upper EXCEPT ![4] = 0],
                      lower |-> [d_tree_aabbs[idx].lower EXCEPT ![4] = 0]]]
    /\ cur_child' = [cur_child EXCEPT ![idx] = 2 * idx + 1]
    /\ cur_parent' = [cur_parent EXCEPT ![idx] = d_leaf_parents[idx]]
    /\ lock_key' = [lock_key EXCEPT ![idx] = d_node_locks[d_leaf_parents[idx]]]
    /\ d_node_locks' = [d_node_locks EXCEPT ![d_leaf_parents[idx]] = @ + 1]
    /\ bpc' = [bpc EXCEPT ![idx] = IF SecondArrival(d_node_locks[d_leaf_parents[idx]])
                                   THEN "merge" ELSE "done"]
    /\ UNCHANGED <<ntypes, d_num_per_type, nleafs, d_morton_codes_red, phase, hier_done,
                   d_leaf_parents, d_node_parents, d_node_children, hier_writes,
                   d_tree_aabbs, aabb_writes, aabb_nwrites>>
    /\ UNCHANGED <<travVars, mortonVars, stageVars>>

\* line 598 on a later turn of the do-while
BubbleAdd(idx) ==
    /\ phase = "bubble"
    /\ bpc[idx] = "add"
    /\ lock_key' = [lock_key EXCEPT ![idx] = d_node_locks[cur_parent[idx]]]
    /\ d_node_locks' = [d_node_locks EXCEPT ![cur_parent[idx]] = @ + 1]
    /\ bpc' = [bpc EXCEPT ![idx] = IF SecondArrival(d_node_locks[cur_parent[idx]])
                                   THEN "merge" ELSE "done"]
    /\ UNCHANGED <<ntypes, d_num_per_type, nleafs, d_morton_codes_red, phase, hier_done,
                   d_leaf_parents, d_node_parents, d_node_children, hier_writes,
                   d_tree_aabbs, aabb_writes, aabb_nwrites,
                   cur_child, cur_parent, cur_box>>
    /\ UNCHANGED <<travVars, mortonVars, stageVars>>

\* line 611-615: the slot of the sibling's box
SiblingSlot(children, child) ==
    LET left_child == children[1]
        right_child == children[2]
        cur_sibling == (IF left_child = child THEN right_child ELSE left_child) \div 2
    IN cur_sibling
       + (IF (left_child = child /\ right_child % 2 = 0)
             \/ (right_child = child /\ left_child % 2 = 0)
          THEN nleafs ELSE 0)

\* lines 617-629: the merged box (the w fields stay zero)
MergeBox(cur, sib) ==
    [upper |-> << Max(cur.upper[1], sib.upper[1]), Max(cur.upper[2], sib.upper[2]),
                  Max(cur.upper[3], sib.upper[3]), cur.upper[4] >>,
     lower |-> << Min(cur.lower[1], sib.lower[1]), Min(cur.lower[2], sib.lower[2]),
                  Min(cur.lower[3], sib.lower[3]), cur.lower[4] >>]

\* line 637: the do-while goes on (the key is 1 when this is evaluated here)
BubbleContinue(child, parent) == child # parent

\* lines 601-635: the second arrival merges, stores and moves up
BubbleMerge(idx) ==
    /\ phase = "bubble"
    /\ bpc[idx] = "merge"
    /\ LET p == cur_parent[idx]
           sib == d_tree_aabbs[SiblingSlot(d_node_children[p], cur_child[idx])]
           box == MergeBox(cur_box[idx], sib)
           next_child == 2 * p
           next_parent == d_node_parents[next_child \div 2]
       IN /\ d_tree_aabbs' = Store(d_tree_aabbs, nleafs + p, box)
          /\ aabb_writes' = aabb_writes \cup {<<p, idx>>}
          /\ aabb_nwrites' = [aabb_nwrites EXCEPT ![p] = @ + 1]
          /\ cur_box' = [cur_box EXCEPT ![idx] = box]
          /\ cur_child' = [cur_child EXCEPT ![idx] = next_child]
          /\ cur_parent' = [cur_parent EXCEPT ![idx] = next_parent]
          /\ bpc' = [bpc EXCEPT ![idx] = IF BubbleContinue(next_child, next_parent)
                                         THEN "add" ELSE "done"]
    /\ UNCHANGED <<ntypes, d_num_per_type, nleafs, d_morton_codes_red, phase, hier_done,
                   d_leaf_parents, d_node_parents, d_node_children, hier_writes,
                   d_node_locks, lock_key>>
    /\ UNCHANGED <<travVars, mortonVars, stageVars>>

(***************************************************************************)
(* Inputs of a rebuild                                                     *)
(***************************************************************************)
NumPerTypeSet == {PARTICLES_PER_LEAF * k - 1 : k \in 1..MaxLeafsPerType}

RECURSIVE TotalLeafs(_, _)
TotalLeafs(num, nt) == IF nt = 0 THEN 0 ELSE TotalLeafs(num, nt - 1) + LeafCount(num, nt - 1)

\* the type of leaf l
RECURSIVE LeafType(_, _, _)
LeafType(num, l, t) == IF l < LeafHead(num, t + 1) THEN t ELSE LeafType(num, l, t + 1)

\* the merge kernel's output order: codes ascend within each type
SortedWithinTypes(num, nl, codes) ==
    \A l \in 0..(nl - 2) :
        LeafType(num, l, 0) = LeafType(num, l + 1, 0) => codes[l] <= codes[l + 1]

\* number of particles the merge kernel counts in leaf l (lower.w)
LeafNp(num, l) ==
    LET t == LeafType(num, l, 0)
        g == l - LeafHead(num, t)
    IN Min(PARTICLES_PER_LEAF, num[t + 1] - g * PARTICLES_PER_LEAF)

\* the box of leaf l under layout k
LeafBox(k, l, np) ==
    LET lo == << (k * l) % 3, (l + k) % 2, l % 3 >>
    IN [upper |-> << lo[1] + (l % 2), lo[2] + 1, lo[3] + (k - 1), 0 >>,
        lower |-> << lo[1], lo[2], lo[3], np >>]

StaleBox(s) == [upper |-> << 3 * s, 3 * s, 3 * s, 0 >>, lower |-> << 0, 0, 0, 0 >>]
StaleIdx(s) == s * (Cap - 1)
StaleChildren(s) == << 3 * s, 2 * s >>

\* the variables of the kernels a specification does not run
SizesIdle == d_num_per_type = << >> /\ nleafs = 0 /\ hier_done = {}

TreeIdle ==
    /\ d_morton_codes_red = << >>
    /\ phase = "idle" /\ hier_writes = {}
    /\ d_leaf_parents = << >> /\ d_node_parents = << >> /\ d_node_children = << >>
    /\ d_node_locks = << >> /\ d_tree_aabbs = << >>
    /\ aabb_writes = {} /\ aabb_nwrites = << >>
    /\ bpc = << >> /\ cur_child = << >> /\ cur_parent = << >> /\ cur_box = << >>
    /\ lock_key = << >>

BuildIdle == SizesIdle /\ TreeIdle

ParticlesIdle == N = 0 /\ d_pos = << >>

SearchIdle ==
    /\ d_body = << >> /\ filter_body = FALSE
    /\ d_r_cut = << >> /\ r_buff = 0 /\ d_Nmax = << >> /\ d_head_list = << >>
    /\ d_image_list = << >> /\ nimages = 0 /\ d_aabb_trees = << >>
    /\ d_aabb_node_bounds = << >> /\ d_aabb_node_head_idx = << >>
    /\ d_aabb_leaf_particles = << >> /\ d_leaf_xyzf = << >> /\ d_leaf_db = << >>
    /\ d_nlist = << >> /\ d_n_neigh = << >> /\ d_last_updated_pos = << >>
    /\ d_conditions = << >> /\ trav_done = {} /\ trav_pass = 0
    /\ counted = << >> /\ stored = << >> /\ trav_prior = << >>

MortonIdle ==
    /\ periodic = << >> /\ d_type_head = << >> /\ d_map_p_global_tree = << >>
    /\ d_morton_codes = << >> /\ d_leaf_particles = << >> /\ morton_done = {}
    /\ morton_writes = {}

SortIdle == sort_cur_type = 0 /\ sort_input = << >>

MergeIdle == d_leaf_offset = << >> /\ merge_done = {} /\ merge_span = << >>

CallIdle == call_args = << >> /\ call_result = << >>

StageIdle == hier_span = << >> /\ SortIdle /\ MergeIdle /\ CallIdle

Init ==
    /\ ntypes \in 1..MaxTypes
    /\ d_num_per_type \in [1..ntypes -> NumPerTypeSet]
    /\ nleafs = TotalLeafs(d_num_per_type, ntypes)
    /\ nleafs <= MaxLeafs
    /\ d_morton_codes_red \in [0..(nleafs - 1) -> CodeSet]
    /\ SortedWithinTypes(d_num_per_type, nleafs, d_morton_codes_red)
    /\ phase = "hierarchy"
    /\ hier_done = {}
    /\ hier_writes = {}
    /\ \E s \in 0..(NumStale - 1), k \in 1..NumLayouts :
          /\ d_leaf_parents = [i \in 0..(Cap - 1) |-> StaleIdx(s)]
          /\ d_node_parents = [i \in 0..(Cap - 1) |-> StaleIdx(s)]
          /\ d_node_children = [i \in 0..(Cap - 1) |-> StaleChildren(s)]
          /\ d_node_locks = [i \in 0..(Cap - 1) |-> s]
          /\ d_tree_aabbs = [i \in 0..(2 * Cap - 1) |->
                               IF i < nleafs
                               THEN LeafBox(k, i, LeafNp(d_num_per_type, i))
                               ELSE StaleBox(s)]
    /\ aabb_writes = {}
    /\ aabb_nwrites = [i \in 0..(Cap - 1) |-> 0]
    /\ bpc = [l \in 0..(nleafs - 1) |-> "start"]
    /\ cur_child = [l \in 0..(nleafs - 1) |-> 0]
    /\ cur_parent = [l \in 0..(nleafs - 1) |-> 0]
    /\ cur_box = [l \in 0..(nleafs - 1) |-> StaleBox(0)]
    /\ lock_key = [l \in 0..(nleafs - 1) |-> 0]
    /\ ParticlesIdle
    /\ SearchIdle
    /\ MortonIdle
    /\ StageIdle

Next ==
    \/ \E idx \in 0..(Cap - 1) : GenHierarchy(idx)
    \/ BubbleLaunch
    \/ \E idx \in 0..(Cap - 1) : BubbleStart(idx)
    \/ \E idx \in DOMAIN bpc : BubbleAdd(idx)
    \/ \E idx \in DOMAIN bpc : BubbleMerge(idx)

Spec == Init /\ [][Next]_vars

BubbleDone == phase = "bubble" /\ \A l \in Leafs : bpc[l] = "done"

(***************************************************************************)
(* The generated topology, read back from the arrays                       *)
(***************************************************************************)
HierarchyDone == hier_done = InternalNodes

\* internal nodes (global ids) and leaves of type t
TypeNodes(t) == {n \in 0..(Cap - 1) :
                   /\ n >= LeafHead(d_num_per_type, t) - t
                   /\ n < LeafHead(d_num_per_type, t + 1) - (t + 1)}
TypeLeafs(t) == {l \in Leafs : LeafType(d_num_per_type, l, 0) = t}
Types == 0..(ntypes - 1)

\* the slot in d_tree_aabbs of a child word
ChildSlot(c) == IF c % 2 = 1 THEN c \div 2 ELSE nleafs + (c \div 2)

\* the internal nodes of type t whose children word names child word c
ParentsOf(t, c) == {n \in TypeNodes(t) : d_node_children[n][1] = c \/ d_node_children[n][2] = c}

TreeShapeOf(t) ==
    /\ Cardinality(TypeNodes(t)) = Cardinality(TypeLeafs(t)) - 1
    /\ \A n \in TypeNodes(t) :
          /\ <<"node_children", n, n>> \in hier_writes
          /\ d_node_children[n][1] # d_node_children[n][2]
          /\ \A k \in 1..2 :
                LET c == d_node_children[n][k]
                IN IF c % 2 = 1 THEN (c \div 2) \in TypeLeafs(t)
                                ELSE (c \div 2) \in TypeNodes(t) \ {n}
    /\ \A l \in TypeLeafs(t) : Cardinality(ParentsOf(t, 2 * l + 1)) = 1
    /\ Cardinality({n \in TypeNodes(t) : d_node_parents[n] = n}) = 1
    /\ \A n \in TypeNodes(t) :
          d_node_parents[n] # n => Cardinality(ParentsOf(t, 2 * n)) = 1
    /\ \A n \in TypeNodes(t) :
          d_node_parents[n] = n => ParentsOf(t, 2 * n) = {}

\* parent pointers agree with the children words
ParentsAgree(t) ==
    /\ \A l \in TypeLeafs(t) : ParentsOf(t, 2 * l + 1) = {d_leaf_parents[l]}
    /\ \A n \in TypeNodes(t) :
          d_node_parents[n] # n => ParentsOf(t, 2 * n) = {d_node_parents[n]}

WellFormedTree ==
    \A t \in Types : Cardinality(TypeLeafs(t)) > 1 /\ TreeShapeOf(t) /\ ParentsAgree(t)

BoxContains(outer, inner) ==
    \A a \in 1..3 : outer.lower[a] <= inner.lower[a] /\ outer.upper[a] >= inner.upper[a]

\* the leaves below internal node n of type t (well-formed trees only)
RECURSIVE LeafsBelow(_, _)
LeafsBelow(c, fuel) ==
    IF c % 2 = 1 THEN {c \div 2}
    ELSE IF fuel = 0 THEN {}
    ELSE LeafsBelow(d_node_children[c \div 2][1], fuel - 1)
         \cup LeafsBelow(d_node_children[c \div 2][2], fuel - 1)

(***************************************************************************)
(* C1: when all propagation threads have finished, every internal node's   *)
(* AABB slot has been written exactly once, by exactly one thread.  Stated *)
(* for the trees that satisfy the shape invariant, so that a violation     *)
(* does not rest on the topology.                                          *)
(***************************************************************************)
C1_EachAABBWrittenOnce ==
    (BubbleDone /\ WellFormedTree) =>
        \A n \in InternalNodes :
            /\ aabb_nwrites[n] = 1
            /\ Cardinality({w \in aabb_writes : w[1] = n}) = 1

(***************************************************************************)
(* C2: after the propagation pass every internal node's visit counter is   *)
(* exactly 2, for every type and every well-formed tree.                   *)
(***************************************************************************)
C2_EveryCounterIsTwo ==
    (BubbleDone /\ WellFormedTree) => \A n \in InternalNodes : d_node_locks[n] = 2

(***************************************************************************)
(* C3: after hierarchy generation and propagation every internal node's    *)
(* stored AABB contains both children's AABBs, and each type's root AABB   *)
(* contains every leaf AABB of the type.                                   *)
(***************************************************************************)
C3_AABBContainment ==
    (BubbleDone /\ WellFormedTree) =>
        /\ \A n \in InternalNodes : \A k \in 1..2 :
              BoxContains(d_tree_aabbs[nleafs + n],
                          d_tree_aabbs[ChildSlot(d_node_children[n][k])])
        /\ \A t \in Types : \A n \in TypeNodes(t) :
              d_node_parents[n] = n =>
                 \A l \in TypeLeafs(t) :
                     BoxContains(d_tree_aabbs[nleafs + n], d_tree_aabbs[l])

(***************************************************************************)
(* C4: for every type with more than one leaf and every non-decreasing     *)
(* code array the hierarchy kernel produces N_t - 1 internal nodes with    *)
(* two distinct children each, every leaf and non-root internal node is    *)
(* the child of exactly one internal node, and exactly one node is its own *)
(* parent.                                                                 *)
(***************************************************************************)
C4_TreeShape ==
    HierarchyDone =>
        \A t \in Types : Cardinality(TypeLeafs(t)) > 1 => TreeShapeOf(t)

(***************************************************************************)
(* C9: no location of d_leaf_parents, d_node_parents or d_node_children is *)
(* written by two different hierarchy threads, so the arrays do not depend *)
(* on the schedule.                                                        *)
(***************************************************************************)
C9_NoWriteConflict ==
    /\ \A w1 \in hier_writes : \A w2 \in hier_writes :
          (w1[1] = w2[1] /\ w1[2] = w2[2]) => w1[3] = w2[3]
    \* every parent slot holds the value of each store made to it, whatever
    \* the order of the threads
    /\ HierarchyDone =>
          \A w \in hier_writes :
              /\ (w[1] = "leaf_parents" /\ w[2] \in DOMAIN d_leaf_parents)
                    => d_leaf_parents[w[2]] = w[3]
              /\ (w[1] = "node_parents" /\ w[2] \in DOMAIN d_node_parents)
                    => d_node_parents[w[2]] = w[3]

(***************************************************************************)
(* gpu_nlist_traverse_tree_kernel                                          *)
(***************************************************************************)
\* Index2D(ntypes)(i, j) of the type-pair tables
typpair_idx(i, j) == j * ntypes + i

\* the body id of a particle that belongs to no body, 0xffffffff
NO_BODY == -1

\* a box test that takes touching boxes for disjoint
OverlapsStrict(aabb_upper, aabb_lower, upper_skip, lower_np) ==
    ~ (\/ aabb_upper[1] <= lower_np[1]
       \/ aabb_lower[1] >= upper_skip[1]
       \/ aabb_upper[2] <= lower_np[2]
       \/ aabb_lower[2] >= upper_skip[2]
       \/ aabb_upper[3] <= lower_np[3]
       \/ aabb_lower[3] >= upper_skip[3])

\* lines 766-771: the query box overlaps the node's box
Overlaps(aabb_upper, aabb_lower, upper_skip, lower_np) ==
    ~ (\/ aabb_upper[1] < lower_np[1]
       \/ aabb_lower[1] > upper_skip[1]
       \/ aabb_upper[2] < lower_np[2]
       \/ aabb_lower[2] > upper_skip[2]
       \/ aabb_upper[3] < lower_np[3]
       \/ aabb_lower[3] > upper_skip[3])

\* an exclusion test without the body rule
ExcludedSelfOnly(my_pidx, j, body_i, body_j) == my_pidx = j

\* an exclusion test that has the body rule only
ExcludedBodyOnly(my_pidx, j, body_i, body_j) ==
    filter_body /\ body_i # NO_BODY /\ body_i = body_j

\* lines 782-785
Excluded(my_pidx, j, body_i, body_j) ==
    (my_pidx = j) \/ (filter_body /\ body_i # NO_BODY /\ body_i = body_j)

Dot(a, b) == a[1] * b[1] + a[2] * b[2] + a[3] * b[3]

\* a distance test that lets a pair just outside the cutoff through
WithinCutLoose(dr2, r_cutsq_i) == dr2 <= r_cutsq_i + 1

\* line 793
WithinCut(dr2, r_cutsq_i) == dr2 <= r_cutsq_i

\* line 795
\* a capacity test that lets one more neighbour in than the slot holds
HasRoomLoose(n_neigh_i, type_i) == n_neigh_i <= d_Nmax[type_i + 1]

HasRoom(n_neigh_i, type_i) == n_neigh_i < d_Nmax[type_i + 1]

\* lines 775-801: one candidate of a leaf.  acc carries the running count,
\* the neighbour list and the record of what was counted
Candidate(acc, ctx, k) ==
    LET cur_xyzf == d_leaf_xyzf[k]
        pos_j == << cur_xyzf[1], cur_xyzf[2], cur_xyzf[3] >>
        j == cur_xyzf[4]
        cur_db == d_leaf_db[k]
        drij == << pos_j[1] - ctx.pos_i_image[1], pos_j[2] - ctx.pos_i_image[2],
                   pos_j[3] - ctx.pos_i_image[3] >>
        dr2 == Dot(drij, drij)
    IN IF ~Excluded(ctx.my_pidx, j, ctx.body_i, cur_db[2]) /\ WithinCut(dr2, ctx.r_cutsq_i)
       THEN [n |-> acc.n + 1,
             nlist |-> IF HasRoom(acc.n, ctx.type_i)
                       THEN Store(acc.nlist, ctx.nlist_head_i + acc.n, j)
                       ELSE acc.nlist,
             stores |-> IF HasRoom(acc.n, ctx.type_i)
                        THEN acc.stores \cup {ctx.nlist_head_i + acc.n}
                        ELSE acc.stores,
             counted |-> Append(acc.counted, << j, ctx.cur_image >>)]
       ELSE acc

\* line 773: the loop over the particles of a leaf (np is 0 for internal nodes)
RECURSIVE ScanLeaf(_, _, _, _, _)
ScanLeaf(acc, ctx, head, np, cur_p) ==
    IF ~(cur_p < np) THEN acc
    ELSE ScanLeaf(Candidate(acc, ctx, head + cur_p), ctx, head, np, cur_p + 1)

\* a cursor update that forgets the increment of the loop after a skip
NextNodeNoIncrement(cur_node_idx, hit, upper_skip) ==
    IF hit THEN cur_node_idx + 1 ELSE cur_node_idx + upper_skip[4]

\* lines 755 and 804-808: the cursor after the node at cur_node_idx; the skip
\* is added first and the increment of the for loop follows in both branches
NextNode(cur_node_idx, hit, upper_skip) ==
    (IF hit THEN cur_node_idx ELSE cur_node_idx + upper_skip[4]) + 1

\* lines 755-809: the stackless loop over the nodes of one tree
RECURSIVE WalkNodes(_, _, _, _)
WalkNodes(acc, ctx, cur_aabb_tree, cur_node_idx) ==
    IF ~(cur_node_idx < cur_aabb_tree.num_nodes) THEN acc
    ELSE LET node == cur_aabb_tree.node_head + cur_node_idx
             upper_skip == d_aabb_node_bounds[node].upper
             lower_np == d_aabb_node_bounds[node].lower
         IN IF Overlaps(ctx.aabb_upper, ctx.aabb_lower, upper_skip, lower_np)
            THEN WalkNodes(ScanLeaf(acc, ctx, d_aabb_node_head_idx[node], lower_np[4], 0),
                           ctx, cur_aabb_tree, NextNode(cur_node_idx, TRUE, upper_skip))
            ELSE WalkNodes(acc, ctx, cur_aabb_tree, NextNode(cur_node_idx, FALSE, upper_skip))

\* lines 740-741, 708: the list cutoff of a type pair
RList(type_i, cur_pair_type) == d_r_cut[typpair_idx(type_i, cur_pair_type)] + r_buff

\* lines 744-810: the loop over the images
RECURSIVE WalkImages(_, _, _, _)
WalkImages(acc, base, cur_pair_type, cur_image) ==
    IF ~(cur_image < nimages) THEN acc
    ELSE LET r_cut_i == RList(base.type_i, cur_pair_type)
             img == d_image_list[cur_image + 1]
             pos_i_image == << base.pos_i[1] + img[1], base.pos_i[2] + img[2],
                               base.pos_i[3] + img[3] >>
             ctx == [my_pidx |-> base.my_pidx, type_i |-> base.type_i,
                     body_i |-> base.body_i, nlist_head_i |-> base.nlist_head_i,
                     pos_i_image |-> pos_i_image, cur_image |-> cur_image,
                     r_cutsq_i |-> r_cut_i * r_cut_i,
                     aabb_upper |-> << pos_i_image[1] + r_cut_i, pos_i_image[2] + r_cut_i,
                                       pos_i_image[3] + r_cut_i >>,
                     aabb_lower |-> << pos_i_image[1] - r_cut_i, pos_i_image[2] - r_cut_i,
                                       pos_i_image[3] - r_cut_i >>]
         IN WalkImages(WalkNodes(acc, ctx, d_aabb_trees[cur_pair_type + 1], 0),
                       base, cur_pair_type, cur_image + 1)

\* lines 737-811: the loop over the pair types
RECURSIVE WalkTypes(_, _, _)
WalkTypes(acc, base, cur_pair_type) ==
    IF ~(cur_pair_type < ntypes) THEN acc
    ELSE WalkTypes(WalkImages(acc, base, cur_pair_type, 0), base, cur_pair_type + 1)

\* lines 726-811 for thread idx, the neighbour list holding nlist0 before
TraverseFrom(idx, nlist0) ==
    LET my_pidx == d_aabb_leaf_particles[idx]
        postype_i == d_pos[my_pidx]
        base == [my_pidx |-> my_pidx,
                 pos_i |-> << postype_i[1], postype_i[2], postype_i[3] >>,
                 type_i |-> postype_i[4],
                 body_i |-> d_body[my_pidx],
                 nlist_head_i |-> d_head_list[my_pidx]]
    IN WalkTypes([n |-> 0, nlist |-> nlist0, stores |-> {}, counted |-> << >>], base, 0)

TraverseResult(idx) == TraverseFrom(idx, d_nlist)

\* a counter update that stores the count whatever the counter held
atomicStore(old, val) == val

\* line 819
atomicMax(old, val) == Max(old, val)

\* an overflow test that misses a count one over the capacity
OverflowedLate(n_neigh_i, type_i) == n_neigh_i > d_Nmax[type_i + 1] + 1

\* line 818
Overflowed(n_neigh_i, type_i) == n_neigh_i >= d_Nmax[type_i + 1]

\* lines 726-820 for thread idx
TraverseThread(idx) ==
    /\ idx < N
    /\ idx \notin trav_done
    /\ \E res \in {TraverseResult(idx)} :
       LET my_pidx == d_aabb_leaf_particles[idx]
           type_i == d_pos[my_pidx][4]
       IN /\ d_nlist' = res.nlist
          /\ d_n_neigh' = [d_n_neigh EXCEPT ![my_pidx] = res.n]
          /\ d_last_updated_pos' = [d_last_updated_pos EXCEPT ![my_pidx] = d_pos[my_pidx]]
          /\ d_conditions' = IF Overflowed(res.n, type_i)
                             THEN [d_conditions EXCEPT ![type_i + 1] = atomicMax(@, res.n)]
                             ELSE d_conditions
          /\ counted' = [counted EXCEPT ![my_pidx] = res.counted]
          /\ stored' = [stored EXCEPT ![my_pidx] = res.stores]
    /\ trav_done' = trav_done \cup {idx}
    /\ trav_pass' = trav_pass
    /\ trav_prior' = trav_prior
    /\ UNCHANGED <<N, d_pos, d_body, filter_body, d_r_cut, r_buff, d_Nmax, d_head_list,
                   d_image_list, nimages, d_aabb_trees, d_aabb_node_bounds,
                   d_aabb_node_head_idx, d_aabb_leaf_particles, d_leaf_xyzf, d_leaf_db>>
    /\ UNCHANGED <<buildVars, mortonVars, stageVars>>

(***************************************************************************)
(* The caller of the traversal: head list, overflow check and re-launch.   *)
(* This code is not among the sources; it follows the specification        *)
(* (sections 4.6, 5 and 7).                                                *)
(***************************************************************************)
RECURSIVE HeadOf(_, _, _)
HeadOf(pos, nmax, i) == IF i = 0 THEN 0 ELSE HeadOf(pos, nmax, i - 1) + nmax[pos[i - 1][4] + 1]

TraverseDone == trav_done = 0..(N - 1)

\* the output arrays as a launch finds them
Outputs(same) ==
    [nlist |-> d_nlist, n_neigh |-> d_n_neigh, last_pos |-> d_last_updated_pos,
     conditions |-> d_conditions, rerun |-> same]

Regrow ==
    /\ TraverseDone
    /\ \E t \in 1..ntypes : d_conditions[t] > d_Nmax[t]
    /\ LET nmax == [t \in 1..ntypes |-> Max(d_Nmax[t], d_conditions[t])]
       IN /\ d_Nmax' = nmax
          /\ d_head_list' = [i \in 0..(N - 1) |-> HeadOf(d_pos, nmax, i)]
    /\ d_conditions' = [t \in 1..ntypes |-> 0]
    /\ trav_prior' = [Outputs(FALSE) EXCEPT !.conditions = [t \in 1..ntypes |-> 0]]
    /\ trav_done' = {}
    /\ trav_pass' = trav_pass + 1
    /\ counted' = [i \in 0..(N - 1) |-> << >>]
    /\ stored' = [i \in 0..(N - 1) |-> {}]
    /\ UNCHANGED <<N, d_pos, d_body, filter_body, d_r_cut, r_buff,
                   d_image_list, nimages, d_aabb_trees, d_aabb_node_bounds,
                   d_aabb_node_head_idx, d_aabb_leaf_particles, d_leaf_xyzf, d_leaf_db,
                   d_nlist, d_n_neigh, d_last_updated_pos>>
    /\ UNCHANGED <<buildVars, mortonVars, stageVars>>

\* a second launch with the same tree, positions, head list and Nmax; nothing
\* is reset in between
Rerun ==
    /\ TraverseDone
    /\ ~trav_prior.rerun
    /\ trav_pass < MaxPass
    /\ trav_prior' = Outputs(TRUE)
    /\ trav_done' = {}
    /\ trav_pass' = trav_pass + 1
    /\ counted' = [i \in 0..(N - 1) |-> << >>]
    /\ stored' = [i \in 0..(N - 1) |-> {}]
    /\ UNCHANGED <<N, d_pos, d_body, filter_body, d_r_cut, r_buff, d_Nmax, d_head_list,
                   d_image_list, nimages, d_aabb_trees, d_aabb_node_bounds,
                   d_aabb_node_head_idx, d_aabb_leaf_particles, d_leaf_xyzf, d_leaf_db,
                   d_nlist, d_n_neigh, d_last_updated_pos, d_conditions>>
    /\ UNCHANGED <<buildVars, mortonVars, stageVars>>

(***************************************************************************)
(* Inputs of the traversal: particles and the flattened trees.  The tree   *)
(* builder is not among the sources; the trees are laid out in depth-first *)
(* order with boxes that contain their subtrees and skip values that make  *)
(* the walk land just past a subtree (specification, section 4.6).         *)
(***************************************************************************)
PosSet == {<< x, y, z >> : x \in 0..MaxX, y \in 0..MaxY, z \in 0..MaxZ}

\* particles of type t, highest index first
RECURSIVE TypeParticles(_, _, _)
TypeParticles(pos, t, n) ==
    IF n = 0 THEN << >>
    ELSE (IF pos[n - 1][4] = t THEN << n - 1 >> ELSE << >>) \o TypeParticles(pos, t, n - 1)

RECURSIVE LeafOrder(_, _, _)
LeafOrder(pos, n, nt) ==
    IF nt = 0 THEN << >> ELSE LeafOrder(pos, n, nt - 1) \o TypeParticles(pos, nt - 1, n)

\* the box of the particles in slots a..b of the leaf order
RECURSIVE SlotsBox(_, _, _, _)
SlotsBox(pos, order, a, b) ==
    LET q == pos[order[a + 1]]
    IN IF a = b THEN [upper |-> << q[1], q[2], q[3] >>, lower |-> << q[1], q[2], q[3] >>]
       ELSE LET r == SlotsBox(pos, order, a + 1, b)
            IN [upper |-> << Max(q[1], r.upper[1]), Max(q[2], r.upper[2]), Max(q[3], r.upper[3]) >>,
                lower |-> << Min(q[1], r.lower[1]), Min(q[2], r.lower[2]), Min(q[3], r.lower[3]) >>]

\* nodes, in depth-first order, of the tree over leaves a..b of a type whose
\* segment of the leaf order starts at slot start and holds cnt particles
RECURSIVE BuildTree(_, _, _, _, _, _, _)
BuildTree(pos, order, start, cnt, a, b, bias) ==
    LET first_slot == start + a * TravLeafCap
        last_slot == Min(start + cnt, start + (b + 1) * TravLeafCap) - 1
        box == SlotsBox(pos, order, first_slot, last_slot)
    IN IF a = b
       THEN << [upper |-> << box.upper[1], box.upper[2], box.upper[3], 0 >>,
                lower |-> << box.lower[1], box.lower[2], box.lower[3],
                             last_slot - first_slot + 1 >>,
                head |-> first_slot] >>
       ELSE LET m == IF bias = 0 THEN a ELSE b - 1
                left == BuildTree(pos, order, start, cnt, a, m, bias)
                right == BuildTree(pos, order, start, cnt, m + 1, b, bias)
            IN << [upper |-> << box.upper[1], box.upper[2], box.upper[3],
                                Len(left) + Len(right) >>,
                   lower |-> << box.lower[1], box.lower[2], box.lower[3], 0 >>,
                   head |-> 0] >> \o left \o right

TypeTree(pos, order, start, cnt, bias) ==
    IF cnt = 0 THEN << >>
    ELSE BuildTree(pos, order, start, cnt, 0,
                   ((cnt + TravLeafCap - 1) \div TravLeafCap) - 1, bias)

RECURSIVE AllTrees(_, _, _, _, _)
AllTrees(pos, order, n, nt, bias) ==
    IF nt = 0 THEN << >>
    ELSE LET prev == AllTrees(pos, order, n, nt - 1, bias)
             start == Len(LeafOrder(pos, n, nt - 1))
             cnt == Len(TypeParticles(pos, nt - 1, n))
         IN Append(prev, TypeTree(pos, order, start, cnt, bias))

RECURSIVE NodeHead(_, _)
NodeHead(trees, t) == IF t = 0 THEN 0 ELSE NodeHead(trees, t - 1) + Len(trees[t])

RECURSIVE Flatten(_, _)
Flatten(trees, nt) == IF nt = 0 THEN << >> ELSE Flatten(trees, nt - 1) \o trees[nt]

BodyOf(pattern, i) ==
    IF pattern = 1 /\ i <= 1 THEN 5 ELSE NO_BODY

InitTraverse ==
    /\ N = MaxN
    /\ ntypes = MaxTypes
    /\ \E k \in 1..N, xyz \in [0..(N - 1) -> PosSet] :
          d_pos = [i \in 0..(N - 1) |->
                     << xyz[i][1], xyz[i][2], xyz[i][3], IF i < k THEN 0 ELSE 1 >>]
    /\ \E fb \in {<< TRUE, 0 >>, << TRUE, 1 >>, << FALSE, 1 >>} :
          /\ filter_body = fb[1]
          /\ d_body = [i \in 0..(N - 1) |-> BodyOf(fb[2], i)]
    /\ d_r_cut = [p \in 0..(ntypes * ntypes - 1) |->
                    IF p % ntypes = p \div ntypes THEN 2 ELSE 1]
    /\ r_buff \in 0..MaxBuff
    /\ \E m \in 1..MaxNmax : d_Nmax = [t \in 1..ntypes |-> m + t - 1]
    /\ d_head_list = [i \in 0..(N - 1) |-> HeadOf(d_pos, d_Nmax, i)]
    /\ nimages = 3
    /\ d_image_list = << << 0, 0, 0 >>, << MaxX + 1, 0, 0 >>, << 0 - (MaxX + 1), 0, 0 >> >>
    /\ \E bias \in 0..1, order \in {LeafOrder(d_pos, N, ntypes)} :
       \E trees \in {AllTrees(d_pos, order, N, ntypes, bias)} :
          LET nodes == Flatten(trees, ntypes)
          IN /\ d_aabb_leaf_particles = [k \in 0..(N - 1) |-> order[k + 1]]
             /\ d_leaf_xyzf = [k \in 0..(N - 1) |->
                                 LET q == d_pos[order[k + 1]]
                                 IN << q[1], q[2], q[3], order[k + 1] >>]
             /\ d_leaf_db = [k \in 0..(N - 1) |-> << 1, d_body[order[k + 1]] >>]
             /\ d_aabb_trees = [t \in 1..ntypes |->
                                  [num_nodes |-> Len(trees[t]),
                                   node_head |-> NodeHead(trees, t - 1)]]
             /\ d_aabb_node_bounds = [x \in 0..(Len(nodes) - 1) |->
                                        [upper |-> nodes[x + 1].upper,
                                         lower |-> nodes[x + 1].lower]]
             /\ d_aabb_node_head_idx = [x \in 0..(Len(nodes) - 1) |-> nodes[x + 1].head]
    /\ \E s \in 0..(NumStale - 1) :
          /\ d_nlist = [x \in 0..(N * N * nimages - 1) |-> s * (N - 1)]
          /\ d_n_neigh = [i \in 0..(N - 1) |-> s]
          /\ d_last_updated_pos = [i \in 0..(N - 1) |-> << s, 0, 0, 0 >>]
          /\ d_conditions = [t \in 1..ntypes |-> s * d_Nmax[t]]
    /\ trav_prior = Outputs(FALSE)
    /\ trav_done = {}
    /\ trav_pass = 1
    /\ counted = [i \in 0..(N - 1) |-> << >>]
    /\ stored = [i \in 0..(N - 1) |-> {}]

InitTrav == InitTraverse /\ BuildIdle /\ MortonIdle /\ StageIdle

NextTrav ==
    \/ \E idx \in 0..(MaxN - 1) : TraverseThread(idx)
    \/ Regrow
    \/ Rerun

SpecTrav == InitTrav /\ [][NextTrav]_vars

(***************************************************************************)
(* The O(N^2) reference search the traversal is compared with.             *)
(***************************************************************************)
TypeOf(i) == d_pos[i][4]

Dist2(i, j, c) ==
    LET img == d_image_list[c + 1]
        d == << d_pos[j][1] - (d_pos[i][1] + img[1]), d_pos[j][2] - (d_pos[i][2] + img[2]),
                d_pos[j][3] - (d_pos[i][3] + img[3]) >>
    IN d[1] * d[1] + d[2] * d[2] + d[3] * d[3]

CutoffSq(i, j) ==
    LET r == d_r_cut[TypeOf(j) * ntypes + TypeOf(i)] + r_buff IN r * r

InCutoff(i, j, c) == Dist2(i, j, c) <= CutoffSq(i, j)

SameBody(i, j) == filter_body /\ d_body[i] # NO_BODY /\ d_body[i] = d_body[j]

TrueNeighbors(i) ==
    {jc \in (0..(N - 1)) \X (0..(nimages - 1)) :
        jc[1] # i /\ ~SameBody(i, jc[1]) /\ InCutoff(i, jc[1], jc[2])}

TrueCount(i) == Cardinality(TrueNeighbors(i))

Range(seq) == {seq[k] : k \in 1..Len(seq)}

\* the particles whose thread has finished in the current launch
Traversed == {d_aabb_leaf_particles[idx] : idx \in trav_done}

\* C5: every particle j other than i, not excluded by the body rule, that is
\* within the list cutoff of some image of i is counted as a neighbour of i;
\* the counted set is the set of the brute-force search
C5_TraversalComplete ==
    \A i \in Traversed :
        /\ TrueNeighbors(i) \subseteq Range(counted[i])
        /\ d_n_neigh[i] = TrueCount(i)

\* a finished search that found a neighbour through a shifted image while
\* another particle of the system is no neighbour at all
C5_Witness ==
    /\ TraverseDone
    /\ \E i \in 0..(N - 1) :
          /\ \E jc \in TrueNeighbors(i) : jc[2] > 0 /\ jc \in Range(counted[i])
          /\ \E j \in 0..(N - 1) : j # i /\ \A c \in 0..(nimages - 1) : ~InCutoff(i, j, c)

TypeMax(t) ==
    LET counts == {TrueCount(i) : i \in {x \in 0..(N - 1) : TypeOf(x) = t}}
    IN IF counts = {} THEN 0 ELSE CHOOSE m \in counts : \A c \in counts : c <= m

Recorded(i) == {d_nlist[d_head_list[i] + k] : k \in 0..(d_n_neigh[i] - 1)}

\* C6: when a particle of type t has more neighbours than Nmax[t], the
\* finished traversal leaves the overflow counter of t at least at the
\* largest count of the type; a second traversal with Nmax[t] raised to that
\* value records every neighbour of every particle of the type
C6_OverflowSignal ==
    TraverseDone =>
        \A t \in 0..(ntypes - 1) :
            /\ (\E i \in 0..(N - 1) : TypeOf(i) = t /\ TrueCount(i) > d_Nmax[t + 1])
                   => d_conditions[t + 1] >= TypeMax(t)
            /\ (trav_pass > 1 /\ d_Nmax[t + 1] = TypeMax(t))
                   => \A i \in 0..(N - 1) :
                          TypeOf(i) = t =>
                              /\ d_n_neigh[i] = TrueCount(i)
                              /\ Cardinality(stored[i]) = TrueCount(i)
                              /\ Recorded(i) = {jc[1] : jc \in TrueNeighbors(i)}

\* a second traversal has finished after a type's capacity was raised beyond
\* every initial capacity
C6_Witness ==
    /\ TraverseDone
    /\ trav_pass > 1
    /\ \E t \in 0..(ntypes - 1) :
          d_Nmax[t + 1] = TypeMax(t) /\ TypeMax(t) > MaxNmax + 1

\* a first traversal has finished with a particle over its capacity
C6_WitnessOverflow ==
    /\ TraverseDone
    /\ trav_pass = 1
    /\ \E i \in 0..(N - 1) : TrueCount(i) > d_Nmax[TypeOf(i) + 1] + 1

\* C7: a particle is never in its own list; with body filtering on, no
\* particle of the same body as i is in i's list unless the body id is the
\* sentinel; a pair with a sentinel body id is never excluded by the body rule
C7_SelfBodyExclusion ==
    \A i \in Traversed :
        /\ \A jc \in Range(counted[i]) :
              /\ jc[1] # i
              /\ (filter_body /\ d_body[i] # NO_BODY) => d_body[jc[1]] # d_body[i]
        /\ \A slot \in stored[i] :
              /\ d_nlist[slot] # i
              /\ (filter_body /\ d_body[i] # NO_BODY) => d_body[d_nlist[slot]] # d_body[i]
        /\ \A j \in 0..(N - 1), c \in 0..(nimages - 1) :
              (j # i /\ InCutoff(i, j, c) /\ (d_body[i] = NO_BODY \/ d_body[j] = NO_BODY))
                  => << j, c >> \in Range(counted[i])

\* a finished search with filtering on in which two particles of one body
\* are within the cutoff of each other, and two particles without a body too
C7_Witness ==
    /\ TraverseDone
    /\ filter_body
    /\ \E i, j \in 0..(N - 1) :
          i # j /\ d_body[i] # NO_BODY /\ d_body[i] = d_body[j] /\ InCutoff(i, j, 0)
    /\ \E i \in 0..(N - 1) : d_body[i] = NO_BODY /\ counted[i] # << >>

\* C8: every particle counted for i, and every index written into the list
\* of i, is within the list cutoff of some image of i
C8_NoFalsePositives ==
    \A i \in Traversed :
        /\ \A jc \in Range(counted[i]) : InCutoff(i, jc[1], jc[2])
        /\ \A slot \in stored[i] :
              /\ slot \in d_head_list[i]..(d_head_list[i] + d_Nmax[TypeOf(i) + 1] - 1)
              /\ \E c \in 0..(nimages - 1) : InCutoff(i, d_nlist[slot], c)

\* a finished search that wrote a list for a particle that also has a
\* particle outside its cutoff in every image
C8_Witness ==
    /\ TraverseDone
    /\ \E i \in 0..(N - 1) :
          /\ stored[i] # {}
          /\ \E j \in 0..(N - 1) : j # i /\ \A c \in 0..(nimages - 1) : ~InCutoff(i, j, c)

(***************************************************************************)
(* gpu_nlist_morton_codes_kernel.  A 32-bit unsigned value is a pair       *)
(* <<high half, low half>> of 16-bit words, so products wrap as in C.      *)
(***************************************************************************)
MORTON_CODE_N_BINS == 1024

Half == 65536

RECURSIVE And(_, _)
And(a, b) ==
    IF a = 0 \/ b = 0 THEN 0
    ELSE ((a % 2) * (b % 2)) + (2 * And(a \div 2, b \div 2))

AndU32(v, m) == << And(v[1], m[1]), And(v[2], m[2]) >>

MulU32(v, c) ==
    LET low == v[2] * c[2]
    IN << ((v[1] * c[2]) + (v[2] * c[1]) + (low \div Half)) % Half, low % Half >>

AddU32(a, b) ==
    LET low == a[2] + b[2]
    IN << (a[1] + b[1] + (low \div Half)) % Half, low % Half >>

\* the signed integer with the bit pattern of v
AsInt(v) == IF v[1] >= Half \div 2 THEN ((v[1] - Half) * Half) + v[2] ELSE (v[1] * Half) + v[2]

\* an expansion that leaves out the first of the four steps
expandBitsShort(v) ==
    LET v2 == AndU32(MulU32(v, << 0, 257 >>), << 3840, 61455 >>)
        v3 == AndU32(MulU32(v2, << 0, 17 >>), << 49932, 12483 >>)
    IN AndU32(MulU32(v3, << 0, 5 >>), << 18724, 37449 >>)

\* lines 78-85
expandBits(v) ==
    LET v1 == AndU32(MulU32(v, << 1, 1 >>), << 65280, 255 >>)
        v2 == AndU32(MulU32(v1, << 0, 257 >>), << 3840, 61455 >>)
        v3 == AndU32(MulU32(v2, << 0, 17 >>), << 49932, 12483 >>)
    IN AndU32(MulU32(v3, << 0, 5 >>), << 18724, 37449 >>)

\* the fractional coordinates of a position: the box class is not among the
\* sources; the box spans [BoxLo, BoxLo + FDen) on every axis and has no
\* ghost layer
BoxLo == 0 - (FDen \div 2)

makeFraction(pos) == << pos[1] - BoxLo, pos[2] - BoxLo, pos[3] - BoxLo >>

\* 1.00001, line 239
FLimit == FDen + (FDen \div 100000)

\* a range test that lets a coordinate of exactly 1.00001 through
OutOfBoxLoose(f) ==
    \/ (f[1] < 0 \/ f[1] > FLimit)
    \/ (f[2] < 0 \/ f[2] > FLimit)
    \/ (f[3] < 0 \/ f[3] > FLimit)

\* lines 239-241
OutOfBox(f) ==
    \/ (f[1] < 0 \/ f[1] >= FLimit)
    \/ (f[2] < 0 \/ f[2] >= FLimit)
    \/ (f[3] < 0 \/ f[3] >= FLimit)

\* lines 250-252: (unsigned int)(f * MORTON_CODE_N_BINS)
Bin(fa) == (fa * MORTON_CODE_N_BINS) \div FDen

\* lines 255-260
WrapBin(b, per) == IF b = MORTON_CODE_N_BINS /\ per THEN 0 ELSE b

\* lines 263-266
MortonCode(ib, jb, kb) ==
    LET ii == expandBits(<< 0, ib >>)
        jj == expandBits(<< 0, jb >>)
        kk == expandBits(<< 0, kb >>)
    IN AddU32(AddU32(MulU32(ii, << 0, 4 >>), MulU32(jj, << 0, 2 >>)), kk)

\* lines 228-271 for thread idx
MortonThread(idx) ==
    /\ idx < N
    /\ idx \notin morton_done
    /\ LET postype == d_pos[idx]
           type == postype[4]
           f == makeFraction(postype)
           ib == WrapBin(Bin(f[1]), periodic[1])
           jb == WrapBin(Bin(f[2]), periodic[2])
           kb == WrapBin(Bin(f[3]), periodic[3])
           leaf_idx == d_type_head[type + 1] + d_map_p_global_tree[idx]
       IN IF OutOfBox(f)
          THEN UNCHANGED <<d_morton_codes, d_leaf_particles, morton_writes>>
          ELSE /\ d_morton_codes' = Store(d_morton_codes, leaf_idx, AsInt(MortonCode(ib, jb, kb)))
               /\ d_leaf_particles' = Store(d_leaf_particles, leaf_idx, idx)
               /\ morton_writes' = morton_writes \cup {<< idx, leaf_idx >>}
    /\ morton_done' = morton_done \cup {idx}
    /\ UNCHANGED <<periodic, d_type_head, d_map_p_global_tree>>
    /\ UNCHANGED <<buildVars, travVars, stageVars>>

(***************************************************************************)
(* Inputs of the encoder.                                                  *)
(***************************************************************************)
\* coordinates just below the box, on its lower face, in its last bin, on
\* its upper face, and at the limit of the tolerated overshoot
CoordSet == {BoxLo - 1, BoxLo, BoxLo + FDen - 1, BoxLo + FDen, BoxLo + FLimit}

\* the coordinates of the particles after the first
FaceSet == {BoxLo, BoxLo + FDen}

\* per-type write offsets and the rank of a particle within its type (the
\* host code that fills them is not among the sources)
TypeHead(pos, n, t) == Cardinality({i \in 0..(n - 1) : pos[i][4] < t})

RankInType(pos, idx) == Cardinality({i \in 0..(idx - 1) : pos[i][4] = pos[idx][4]})

\* what the code and particle arrays hold before the encoder runs: zeros, or
\* the leftovers of an earlier rebuild (a code of the last bin, the highest
\* particle index)
StaleCode(s) == s * 7

StaleParticle(s) == s * (MaxMortonN - 1)

InitEncoder ==
    /\ N = MaxMortonN
    /\ ntypes = MaxTypes
    /\ d_pos \in [0..(N - 1) -> CoordSet \X CoordSet \X CoordSet \X (0..(ntypes - 1))]
    /\ \A i \in 1..(N - 1) : \A a \in 1..3 : d_pos[i][a] \in FaceSet
    /\ periodic \in [1..3 -> BOOLEAN]
    /\ d_type_head = [t \in 1..ntypes |-> TypeHead(d_pos, N, t - 1)]
    /\ d_map_p_global_tree = [i \in 0..(N - 1) |-> RankInType(d_pos, i)]
    /\ \E s \in 0..(NumStale - 1) :
          /\ d_morton_codes = [l \in 0..(N - 1) |-> StaleCode(s)]
          /\ d_leaf_particles = [l \in 0..(N - 1) |-> StaleParticle(s)]
    /\ morton_done = {}
    /\ morton_writes = {}

InitMorton == InitEncoder /\ BuildIdle /\ SearchIdle /\ StageIdle

NextMorton == \E idx \in 0..(MaxMortonN - 1) : MortonThread(idx)

SpecMorton == InitMorton /\ [][NextMorton]_vars

\* the 30-bit code of three 10-bit bins: bit k of a bin is bit 3k of the result
RECURSIVE Spread(_)
Spread(b) == IF b = 0 THEN 0 ELSE (b % 2) + (8 * Spread(b \div 2))

Interleave(i, j, k) == (4 * Spread(i)) + (2 * Spread(j)) + Spread(k)

\* the bin of a coordinate as the boundary rule states it
BoundaryBin(fa, per) ==
    IF Bin(fa) = MORTON_CODE_N_BINS THEN (IF per THEN 0 ELSE MORTON_CODE_N_BINS - 1)
    ELSE Bin(fa)

OnUpperBoundary(idx) ==
    \E a \in 1..3 : Bin(makeFraction(d_pos[idx])[a]) = MORTON_CODE_N_BINS

Written(idx) == \E w \in morton_writes : w[1] = idx

SlotOf(idx) == d_type_head[d_pos[idx][4] + 1] + d_map_p_global_tree[idx]

\* C10: a particle with a coordinate whose bin index is exactly 1024, and
\* with every fractional coordinate in [0, 1.00001), is not dropped; its code
\* is the code of bin 0 on that axis if the axis is periodic and of bin 1023
\* if it is not
C10_BoundaryWrap ==
    \A idx \in morton_done :
        LET f == makeFraction(d_pos[idx])
        IN (OnUpperBoundary(idx) /\ \A a \in 1..3 : f[a] >= 0 /\ f[a] < FLimit)
               => /\ Written(idx)
                  /\ d_leaf_particles[SlotOf(idx)] = idx
                  /\ d_morton_codes[SlotOf(idx)]
                        = Interleave(BoundaryBin(f[1], periodic[1]),
                                     BoundaryBin(f[2], periodic[2]),
                                     BoundaryBin(f[3], periodic[3]))

\* the part of C10 about periodic axes and about dropping: a particle whose
\* upper-boundary coordinates are all on periodic axes is written with bin 0
\* on those axes
C10_PeriodicWrap ==
    \A idx \in morton_done :
        LET f == makeFraction(d_pos[idx])
        IN (/\ OnUpperBoundary(idx)
            /\ \A a \in 1..3 : f[a] >= 0 /\ f[a] < FLimit
            /\ \A a \in 1..3 : Bin(f[a]) = MORTON_CODE_N_BINS => periodic[a])
               => /\ Written(idx)
                  /\ d_leaf_particles[SlotOf(idx)] = idx
                  /\ d_morton_codes[SlotOf(idx)]
                        = Interleave(BoundaryBin(f[1], periodic[1]),
                                     BoundaryBin(f[2], periodic[2]),
                                     BoundaryBin(f[3], periodic[3]))

\* an encoded particle on the upper face of a non-periodic axis
C10_Witness ==
    \E idx \in morton_done :
        /\ Written(idx)
        /\ \E a \in 1..3 : Bin(makeFraction(d_pos[idx])[a]) = MORTON_CODE_N_BINS /\ ~periodic[a]

(***************************************************************************)
(* The size computations of the hierarchy kernel (lines 284-315) on their  *)
(* own, for particle counts that include empty types.                      *)
(***************************************************************************)
\* particle counts of a type: none, one, a full leaf, and one and two
\* leaves with one particle more
CountSet == {0, 1, PARTICLES_PER_LEAF, PARTICLES_PER_LEAF + 1, 2 * PARTICLES_PER_LEAF + 1}

\* lines 284-315 for thread idx
SpanThread(idx) ==
    /\ idx \notin hier_done
    /\ ULt(idx, NumInternal)
    /\ hier_span' = [hier_span EXCEPT
                       ![idx] = TypeSearch(d_num_per_type, ntypes, idx, 0, 0)]
    /\ hier_done' = hier_done \cup {idx}
    /\ UNCHANGED <<ntypes, d_num_per_type, nleafs, d_morton_codes_red, phase,
                   d_leaf_parents, d_node_parents, d_node_children, hier_writes,
                   d_node_locks, d_tree_aabbs, aabb_writes, aabb_nwrites,
                   bpc, cur_child, cur_parent, cur_box, lock_key>>
    /\ UNCHANGED <<travVars, mortonVars, sortVars, mergeVars, callVars>>

InitSizes ==
    /\ ntypes \in 1..MaxTypes
    /\ d_num_per_type \in [1..ntypes -> CountSet]
    /\ nleafs = TotalLeafs(d_num_per_type, ntypes)
    /\ hier_done = {}
    /\ hier_span = [idx \in 0..(Cap - 1) |->
                      [origin |-> 0, end |-> 0, node_idx |-> 0, cur_type |-> 0]]
    /\ TreeIdle /\ ParticlesIdle /\ SearchIdle /\ MortonIdle /\ SortIdle /\ MergeIdle
    /\ CallIdle

NextSizes == \E idx \in 0..(Cap - 1) : SpanThread(idx)

SpecSizes == InitSizes /\ [][NextSizes]_vars

\* the number of internal nodes of the trees: one less than the leaves of
\* every type that has leaves
RECURSIVE TrueInternal(_, _)
TrueInternal(num, nt) ==
    IF nt = 0 THEN 0
    ELSE TrueInternal(num, nt - 1)
         + (IF LeafCount(num, nt - 1) > 0 THEN LeafCount(num, nt - 1) - 1 ELSE 0)

HasEmptyType == \E t \in 1..ntypes : d_num_per_type[t] = 0

\* C11: with a type of zero particles the size computations do not
\* underflow: the thread bound nleafs - ntypes is the number of internal
\* nodes, no thread is assigned to the empty type, and every thread gets the
\* leaf span of its type
C11_EmptyTypeSizes ==
    HasEmptyType =>
        /\ NumInternal = TrueInternal(d_num_per_type, ntypes)
        /\ \A idx \in hier_done :
              LET sp == hier_span[idx]
              IN /\ sp.cur_type < ntypes
                 /\ d_num_per_type[sp.cur_type + 1] > 0
                 /\ sp.origin = LeafHead(d_num_per_type, sp.cur_type)
                 /\ sp.end = LeafHead(d_num_per_type, sp.cur_type)
                             + LeafCount(d_num_per_type, sp.cur_type) - 1

\* a particle with a fractional coordinate outside [0, 1.00001)
OutsideDomain(idx) ==
    \E a \in 1..3 : makeFraction(d_pos[idx])[a] < 0 \/ makeFraction(d_pos[idx])[a] >= FLimit

\* C12: the thread of a particle with a coordinate < 0 or >= 1.00001 writes
\* nothing; every other particle is written to the slot given by its type's
\* offset and its rank among all particles of the type, the dropped ones
\* counted, and no other slot is written
C12_SilentDrop ==
    /\ \A idx \in morton_done : OutsideDomain(idx) => ~Written(idx)
    /\ \A idx \in morton_done :
          ~OutsideDomain(idx) =>
              /\ {w \in morton_writes : w[1] = idx}
                    = {<< idx, TypeHead(d_pos, N, d_pos[idx][4]) + RankInType(d_pos, idx) >>}
              /\ d_leaf_particles[TypeHead(d_pos, N, d_pos[idx][4]) + RankInType(d_pos, idx)] = idx
    /\ \A l \in 0..(N - 1) :
          (\A w \in morton_writes : w[2] # l)
              => \E s \in 0..(NumStale - 1) :
                    d_morton_codes[l] = StaleCode(s) /\ d_leaf_particles[l] = StaleParticle(s)

\* both threads have run; the first particle of a type was dropped and a
\* later particle of the same type was written
C12_Witness ==
    /\ morton_done = 0..(N - 1)
    /\ \E i, j \in 0..(N - 1) :
          /\ i < j /\ d_pos[i][4] = d_pos[j][4]
          /\ OutsideDomain(i) /\ ~OutsideDomain(j) /\ Written(j)

\* the slots of type t's segment [type_head[t], type_head[t+1]); the last
\* segment ends at N
Segment(t) ==
    {l \in 0..(N - 1) :
        /\ d_type_head[t + 1] <= l
        /\ l < (IF t + 1 < ntypes THEN d_type_head[t + 2] ELSE N)}

\* C13: after the encoding pass each type's segment of the leaf-particle
\* ordering holds every particle of the type exactly once and no other
\* particle, segments of different types are disjoint, and every slot of the
\* segment was written in this pass
C13_SegmentsComplete ==
    morton_done = 0..(N - 1) =>
        /\ \A t \in 0..(ntypes - 1) :
              /\ \A l \in Segment(t) :
                    /\ \E w \in morton_writes : w[2] = l
                    /\ d_pos[d_leaf_particles[l]][4] = t
              /\ \A i \in 0..(N - 1) :
                    d_pos[i][4] = t
                        => Cardinality({l \in Segment(t) : d_leaf_particles[l] = i}) = 1
        /\ \A t, u \in 0..(ntypes - 1) : t # u => Segment(t) \cap Segment(u) = {}

\* C18: every Morton code written by the encoder is a 30-bit value
C18_CodeBelow2Pow30 ==
    \A w \in morton_writes :
        d_morton_codes[w[2]] >= 0 /\ d_morton_codes[w[2]] < 2^30

\* the list indices allocated to particle i
SlotRange(i) == d_head_list[i]..(d_head_list[i] + d_Nmax[TypeOf(i) + 1] - 1)

\* C16: every neighbour-list write of particle i goes to an index of i's own
\* slot and to no other particle's slot; the count goes up for every accepted
\* neighbour also when the slot is full, so n_neigh[i] is the true number of
\* neighbours, which may exceed Nmax, while min(count, Nmax) entries are written
C16_WritesWithinSlot ==
    \A i \in Traversed :
        /\ stored[i] \subseteq SlotRange(i)
        /\ \A j \in 0..(N - 1) : j # i => stored[i] \cap SlotRange(j) = {}
        /\ d_n_neigh[i] = Len(counted[i])
        /\ d_n_neigh[i] = TrueCount(i)
        /\ Cardinality(stored[i]) = Min(TrueCount(i), d_Nmax[TypeOf(i) + 1])

\* a finished particle whose slot is full and whose count is beyond its
\* capacity, next to another particle that wrote into its own slot
C16_Witness ==
    \E i, j \in Traversed :
        /\ i # j
        /\ d_n_neigh[i] > d_Nmax[TypeOf(i) + 1]
        /\ stored[i] = SlotRange(i)
        /\ stored[j] # {}

\* every thread of a launch run on a zero-filled neighbour list
CleanRuns == [idx \in 0..(N - 1) |-> TraverseFrom(idx, [x \in DOMAIN d_nlist |-> 0])]

\* the slot of the leaf arrays that holds particle i
ThreadOf(i) == CHOOSE idx \in 0..(N - 1) : d_aabb_leaf_particles[idx] = i

\* the largest count of type t that reaches the capacity, or what the counter held
CounterAfter(held, runs, t) ==
    LET seen == {runs[idx].n : idx \in {x \in 0..(N - 1) :
                     /\ TypeOf(d_aabb_leaf_particles[x]) = t
                     /\ Overflowed(runs[x].n, t)}} \cup {held}
    IN CHOOSE m \in seen : \A c \in seen : c <= m

\* the output arrays after a launch that found them holding prior
AfterLaunch(prior, runs) ==
    [nlist |-> [x \in DOMAIN d_nlist |->
                  IF \E idx \in 0..(N - 1) : x \in runs[idx].stores
                  THEN runs[CHOOSE idx \in 0..(N - 1) : x \in runs[idx].stores].nlist[x]
                  ELSE prior.nlist[x]],
     n_neigh |-> [i \in 0..(N - 1) |-> runs[ThreadOf(i)].n],
     last_pos |-> [i \in 0..(N - 1) |-> d_pos[i]],
     conditions |-> [t \in 1..ntypes |-> CounterAfter(prior.conditions[t], runs, t - 1)],
     rerun |-> FALSE]

ZeroOutputs ==
    [nlist |-> [x \in DOMAIN d_nlist |-> 0], n_neigh |-> [i \in 0..(N - 1) |-> 0],
     last_pos |-> [i \in 0..(N - 1) |-> << 0, 0, 0, 0 >>],
     conditions |-> [t \in 1..ntypes |-> 0], rerun |-> FALSE]

\* C17 as stated: after a traversal n_neigh, the neighbour list,
\* last_updated_pos and the overflow counters are what a traversal of
\* zero-filled arrays gives, whatever the arrays held before, and a second
\* traversal leaves the arrays as the first did
C17_StatelessTraversal ==
    TraverseDone =>
        \E runs \in {CleanRuns} :
            /\ Outputs(FALSE) = AfterLaunch(ZeroOutputs, runs)
            /\ trav_prior.rerun => Outputs(TRUE) = trav_prior

\* C17, amended: n_neigh, last_updated_pos and the entries a thread stores
\* (the first min(n_neigh, Nmax) of a slot) do not depend on what the arrays
\* held before; every other list entry keeps what it held and a counter ends
\* at the larger of what it held and the largest count of its type that
\* reaches the capacity; a second traversal leaves the arrays as the first did
C17_StatelessUpToPrior ==
    TraverseDone =>
        \E runs \in {CleanRuns} :
            /\ Outputs(FALSE) = AfterLaunch(trav_prior, runs)
            /\ \A i \in 0..(N - 1) : stored[i] = runs[ThreadOf(i)].stores
            /\ trav_prior.rerun => Outputs(TRUE) = trav_prior

\* a second traversal has finished; a list entry that no thread stored to
\* still holds what was there before the first, a thread stored neighbours,
\* and a counter is set
C17_Witness ==
    /\ TraverseDone
    /\ trav_prior.rerun
    /\ \E x \in DOMAIN d_nlist :
          (\A i \in 0..(N - 1) : x \notin stored[i]) /\ d_nlist[x] # 0
    /\ \E i \in 0..(N - 1) : stored[i] # {}
    /\ \E t \in 1..ntypes : d_conditions[t] > d_Nmax[t]

\* the particles whose thread runs in this step
JustTraversed == {d_aabb_leaf_particles[idx] : idx \in trav_done' \ trav_done}

\* C19: a step of a traversal thread changes the overflow counter of a type
\* only if the particle of the thread is of that type and has more neighbours
\* than Nmax of the type, and then the counter is at least that count
C19_CounterOnlyOnExcess ==
    [][\A t \in 0..(ntypes - 1) :
          trav_pass' = trav_pass =>
              /\ d_conditions'[t + 1] # d_conditions[t + 1]
                    => \E i \in JustTraversed :
                          TypeOf(i) = t /\ d_n_neigh'[i] > d_Nmax[t + 1]
              /\ \A i \in JustTraversed :
                    (TypeOf(i) = t /\ d_n_neigh'[i] > d_Nmax[t + 1])
                        => d_conditions'[t + 1] >= d_n_neigh'[i]]_vars

\* the internal node whose box thread idx stored last
LastWritten(idx) == cur_child[idx] \div 2

IsRoot(n) == d_node_parents[n] = n

\* C20: on a well-formed tree a propagation thread has stopped only if its
\* atomic increment returned 0 (first arrival) or the node it just wrote is
\* the self-parent root of its type; a thread that goes on to a further
\* increment has just written a node that is not a root
C20_StopOnlyAtFirstOrRoot ==
    (phase = "bubble" /\ WellFormedTree) =>
        \A idx \in Leafs :
            /\ bpc[idx] = "done"
                  => \/ lock_key[idx] = 0
                     \/ /\ << LastWritten(idx), idx >> \in aabb_writes
                        /\ IsRoot(LastWritten(idx))
            /\ bpc[idx] = "add" => ~IsRoot(LastWritten(idx))

(***************************************************************************)
(* gpu_nlist_morton_sort: one sort_by_key per type on consecutive ranges   *)
(* of the code and particle arrays.                                        *)
(***************************************************************************)
\* a key order that sorts the wrong way round
KeyOrderDescending(a, b) == ~ULt(a, b)

\* line 450: the order of sort_by_key on unsigned keys, a may precede b
KeyOrder(a, b) == ~ULt(b, a)

\* lines 455-456: where the pointers stand when type t is sorted
RECURSIVE SortBase(_, _)
SortBase(num, t) == IF t = 0 THEN 0 ELSE SortBase(num, t - 1) + num[t]

\* lines 448-457, one turn of the loop.  sort_by_key leaves the order of
\* equal keys open (only stable_sort_by_key fixes it), so every arrangement
\* of the range with the keys in order is a possible outcome
SortType ==
    /\ sort_cur_type < ntypes
    /\ \E base \in {SortBase(d_num_per_type, sort_cur_type)} :
       LET seg == base..(base + d_num_per_type[sort_cur_type + 1] - 1)
       IN \E f \in [seg -> seg] :
             /\ \A a, b \in seg : a # b => f[a] # f[b]
             /\ \A a, b \in seg :
                   a < b => KeyOrder(d_morton_codes[f[a]], d_morton_codes[f[b]])
             /\ d_morton_codes' = [l \in DOMAIN d_morton_codes |->
                                     IF l \in seg THEN d_morton_codes[f[l]]
                                     ELSE d_morton_codes[l]]
             /\ d_leaf_particles' = [l \in DOMAIN d_leaf_particles |->
                                       IF l \in seg THEN d_leaf_particles[f[l]]
                                       ELSE d_leaf_particles[l]]
    /\ sort_cur_type' = sort_cur_type + 1
    /\ UNCHANGED <<periodic, d_type_head, d_map_p_global_tree, morton_done, morton_writes>>
    /\ UNCHANGED <<buildVars, travVars, hier_span, sort_input, mergeVars, callVars>>

\* codes of the first bin, the next one, and one with the top bit set
SortCodeSet == {0, 1, (0 - 2147483647) - 1}

InitSort ==
    /\ ntypes \in 1..MaxTypes
    /\ d_num_per_type \in [1..ntypes -> 0..MaxSortN]
    /\ \E total \in {SortBase(d_num_per_type, ntypes)} :
          /\ d_morton_codes \in [0..(total - 1) -> SortCodeSet]
          /\ \E rev \in BOOLEAN :
                d_leaf_particles = [l \in 0..(total - 1) |->
                                      IF rev THEN total - 1 - l ELSE l]
    /\ sort_input = [l \in DOMAIN d_morton_codes |->
                       << d_morton_codes[l], d_leaf_particles[l] >>]
    /\ sort_cur_type = 0
    /\ periodic = << >> /\ d_type_head = << >> /\ d_map_p_global_tree = << >>
    /\ morton_done = {} /\ morton_writes = {}
    /\ nleafs = 0 /\ hier_done = {}
    /\ TreeIdle /\ ParticlesIdle /\ SearchIdle /\ hier_span = << >> /\ MergeIdle
    /\ CallIdle

NextSort == SortType

SpecSort == InitSort /\ [][NextSort]_vars

SortDone == sort_cur_type = ntypes /\ sort_input # << >>

\* the slots of type t in the sorted arrays
SortSegment(t) ==
    {l \in DOMAIN sort_input :
        /\ SortBase(d_num_per_type, t) <= l
        /\ l < SortBase(d_num_per_type, t + 1)}

\* a <= b for the unsigned numbers the codes stand for (a code with the top
\* bit set is kept as a negative number)
UnsignedLeq(a, b) == IF (a < 0) = (b < 0) THEN a <= b ELSE b < 0

SortedPair(l) == << d_morton_codes[l], d_leaf_particles[l] >>

\* within each segment the codes are in non-decreasing order, and the pairs
\* of a segment are the pairs the segment held before
SortedPermutation ==
    \A t \in 0..(ntypes - 1) :
        /\ \A a, b \in SortSegment(t) :
              a < b => UnsignedLeq(d_morton_codes[a], d_morton_codes[b])
        /\ {SortedPair(l) : l \in SortSegment(t)} = {sort_input[l] : l \in SortSegment(t)}

\* pairs of a segment with equal codes are in the order they had before
TiesKeepOrder ==
    \A t \in 0..(ntypes - 1) :
        \A a, b \in SortSegment(t) :
            (a < b /\ sort_input[a][1] = sort_input[b][1])
                => \E x, y \in SortSegment(t) :
                      x < y /\ SortedPair(x) = sort_input[a] /\ SortedPair(y) = sort_input[b]

\* C14 as stated: after the sort each segment is in non-decreasing code order,
\* holds the pairs it held before, every id with its own code, none from
\* another segment, and pairs with equal codes keep their relative order
C14_StableSortWithinTypes == SortDone => (SortedPermutation /\ TiesKeepOrder)

\* C14, amended: after the sort each segment is in non-decreasing code order
\* and holds the pairs it held before, every id with its own code, none from
\* another segment; the order of pairs with equal codes is left open
C14_SortWithinTypes == SortDone => SortedPermutation

\* two types were sorted; a segment that was out of order is in order now and
\* a pair of equal codes has changed places
C14_Witness ==
    /\ SortDone
    /\ ntypes = 2
    /\ \A t \in 0..1 : d_num_per_type[t + 1] > 1
    /\ \E a, b \in SortSegment(1) :
          a < b /\ ~UnsignedLeq(sort_input[a][1], sort_input[b][1])
    /\ ~TiesKeepOrder

(***************************************************************************)
(* gpu_nlist_merge_particles_kernel: one thread per leaf                   *)
(***************************************************************************)
\* lines 482-497: the type of leaf idx and the end of the type's segment
RECURSIVE MergeTypeSearch(_, _, _)
MergeTypeSearch(idx, cur_type, total_bins) ==
    IF ~(cur_type < ntypes) THEN [leaf_type |-> 0 - 1, max_idx |-> N]
    ELSE LET bins == total_bins + LeafCount(d_num_per_type, cur_type)
         IN IF ULt(idx, bins)
            THEN [leaf_type |-> cur_type,
                  max_idx |-> IF cur_type + 1 < ntypes THEN d_type_head[cur_type + 2] ELSE N]
            ELSE MergeTypeSearch(idx, cur_type + 1, bins)

\* line 499
MergeStart(idx, leaf_type) == idx * PARTICLES_PER_LEAF - d_leaf_offset[leaf_type + 1]

\* a leaf end that keeps only the first particle of a type's last leaf
MergeEndShort(start_idx, max_idx) ==
    IF ULt(PARTICLES_PER_LEAF, max_idx - start_idx)
    THEN start_idx + PARTICLES_PER_LEAF
    ELSE start_idx + 1

\* line 500
MergeEnd(start_idx, max_idx) ==
    IF ULt(PARTICLES_PER_LEAF, max_idx - start_idx)
    THEN start_idx + PARTICLES_PER_LEAF
    ELSE max_idx

\* lines 511-526: the loop over the other particles of the leaf
RECURSIVE MergeLoop(_, _, _)
MergeLoop(box, cur_p, end_idx) ==
    IF ~ULt(cur_p, end_idx) THEN box
    ELSE LET cur_pos == d_pos[d_leaf_particles[cur_p]]
         IN MergeLoop([upper |-> << Max(box.upper[1], cur_pos[1]),
                                    Max(box.upper[2], cur_pos[2]),
                                    Max(box.upper[3], cur_pos[3]), box.upper[4] >>,
                       lower |-> << Min(box.lower[1], cur_pos[1]),
                                    Min(box.lower[2], cur_pos[2]),
                                    Min(box.lower[3], cur_pos[3]), box.lower[4] + 1 >>],
                      cur_p + 1, end_idx)

\* lines 504-509: the box of the first particle
MergeFirst(start_idx) ==
    LET p == d_pos[d_leaf_particles[start_idx]]
    IN [upper |-> << p[1], p[2], p[3], 0 >>, lower |-> << p[1], p[2], p[3], 1 >>]

\* lines 475-531 for thread idx
MergeThread(idx) ==
    /\ idx \notin merge_done
    /\ ULt(idx, nleafs)
    /\ \E ty \in {MergeTypeSearch(idx, 0, 0)} :
       \E start_idx \in {MergeStart(idx, ty.leaf_type)} :
       \E end_idx \in {MergeEnd(start_idx, ty.max_idx)} :
       \E box \in {MergeLoop(MergeFirst(start_idx), start_idx + 1, end_idx)} :
          /\ d_tree_aabbs' = Store(d_tree_aabbs, idx, box)
          /\ d_morton_codes_red' = Store(d_morton_codes_red, idx, d_morton_codes[start_idx])
          /\ merge_span' = [merge_span EXCEPT
                              ![idx] = [leaf_type |-> ty.leaf_type,
                                        start_idx |-> start_idx, end_idx |-> end_idx]]
    /\ merge_done' = merge_done \cup {idx}
    /\ UNCHANGED <<ntypes, d_num_per_type, nleafs, phase, hier_done,
                   d_leaf_parents, d_node_parents, d_node_children, hier_writes,
                   d_node_locks, aabb_writes, aabb_nwrites,
                   bpc, cur_child, cur_parent, cur_box, lock_key>>
    /\ UNCHANGED <<travVars, mortonVars, hier_span, sortVars, d_leaf_offset, callVars>>

\* particle counts of a type: none, one, a full leaf, one more, two full leaves
MergeCountSet == {0, 1, PARTICLES_PER_LEAF, PARTICLES_PER_LEAF + 1, 2 * PARTICLES_PER_LEAF}

\* the padding of the leaves before type t: every type's last leaf is counted
\* as a full one (host code that is not among the sources)
LeafOffset(num, t) == LeafHead(num, t) * PARTICLES_PER_LEAF - SortBase(num, t)

InitMerge ==
    /\ ntypes \in 1..MaxTypes
    /\ d_num_per_type \in [1..ntypes -> MergeCountSet]
    /\ nleafs = TotalLeafs(d_num_per_type, ntypes)
    /\ N = SortBase(d_num_per_type, ntypes)
    /\ d_type_head = [t \in 1..ntypes |-> SortBase(d_num_per_type, t - 1)]
    /\ d_leaf_offset = [t \in 1..ntypes |-> LeafOffset(d_num_per_type, t - 1)]
    /\ \E k \in 1..NumPlacements :
          /\ d_pos = [i \in 0..(N - 1) |->
                        << (k * i) % 5, (i + k) % 3, i % 2,
                           Cardinality({t \in 1..ntypes : d_type_head[t] <= i}) - 1 >>]
          /\ d_morton_codes = [l \in 0..(N - 1) |->
                                 k * (l - d_type_head[d_pos[l][4] + 1])]
    /\ \E rev \in BOOLEAN :
          d_leaf_particles = [l \in 0..(N - 1) |->
                                IF rev
                                THEN LET t == d_pos[l][4]
                                     IN d_type_head[t + 1] + d_num_per_type[t + 1] - 1
                                            - (l - d_type_head[t + 1])
                                ELSE l]
    /\ \E s \in 0..(NumStale - 1) :
          /\ d_tree_aabbs = [idx \in 0..(nleafs - 1) |-> StaleBox(s)]
          /\ d_morton_codes_red = [idx \in 0..(nleafs - 1) |-> StaleIdx(s)]
    /\ merge_done = {}
    /\ merge_span = [idx \in 0..(nleafs - 1) |->
                       [leaf_type |-> 0, start_idx |-> 0, end_idx |-> 0]]
    /\ hier_done = {} /\ phase = "idle" /\ hier_writes = {}
    /\ d_leaf_parents = << >> /\ d_node_parents = << >> /\ d_node_children = << >>
    /\ d_node_locks = << >> /\ aabb_writes = {} /\ aabb_nwrites = << >>
    /\ bpc = << >> /\ cur_child = << >> /\ cur_parent = << >> /\ cur_box = << >>
    /\ lock_key = << >>
    /\ SearchIdle
    /\ periodic = << >> /\ d_map_p_global_tree = << >>
    /\ morton_done = {} /\ morton_writes = {}
    /\ hier_span = << >> /\ SortIdle /\ CallIdle

NextMerge == \E idx \in 0..(Cap - 1) : MergeThread(idx)

SpecMerge == InitMerge /\ [][NextMerge]_vars

\* the group of leaf idx: its type, its number within the type, the size of
\* the type
GroupOf(idx) ==
    LET t == CHOOSE u \in 0..(ntypes - 1) :
                 LeafHead(d_num_per_type, u) <= idx /\ idx < LeafHead(d_num_per_type, u + 1)
    IN [t |-> t, g |-> idx - LeafHead(d_num_per_type, t), n |-> d_num_per_type[t + 1]]

\* the slots [type_head[t] + g*L, type_head[t] + min(g*L + L, N_t))
GroupSlots(idx) ==
    LET gr == GroupOf(idx)
    IN {l \in 0..(N - 1) :
          /\ l >= d_type_head[gr.t + 1] + gr.g * PARTICLES_PER_LEAF
          /\ l < d_type_head[gr.t + 1]
                   + Min(gr.g * PARTICLES_PER_LEAF + PARTICLES_PER_LEAF, gr.n)}

\* the slots thread idx went through
SpanSlots(idx) == {l \in 0..(N - 1) : merge_span[idx].start_idx <= l /\ l < merge_span[idx].end_idx}

\* C15: the leaf of group g of type t covers exactly the slots of the group:
\* its particle count is the size of the group, between 1 and L, its box is
\* the bounding box of the group's particles, its code is the code of the
\* group's first slot, and the leaves of a type cover the type's segment
\* without overlap or gap
C15_LeafGroups ==
    /\ \A idx \in merge_done :
          /\ merge_span[idx].leaf_type = GroupOf(idx).t
          /\ SpanSlots(idx) = GroupSlots(idx)
          /\ d_tree_aabbs[idx].lower[4] = Cardinality(GroupSlots(idx))
          /\ d_tree_aabbs[idx].lower[4] \in 1..PARTICLES_PER_LEAF
          /\ d_tree_aabbs[idx].upper[4] = 0
          /\ \A a \in 1..3 :
                /\ \A l \in GroupSlots(idx) :
                      /\ d_tree_aabbs[idx].lower[a] <= d_pos[d_leaf_particles[l]][a]
                      /\ d_tree_aabbs[idx].upper[a] >= d_pos[d_leaf_particles[l]][a]
                /\ \E l \in GroupSlots(idx) :
                      d_tree_aabbs[idx].lower[a] = d_pos[d_leaf_particles[l]][a]
                /\ \E l \in GroupSlots(idx) :
                      d_tree_aabbs[idx].upper[a] = d_pos[d_leaf_particles[l]][a]
          /\ \E first \in GroupSlots(idx) :
                /\ \A l \in GroupSlots(idx) : first <= l
                /\ d_morton_codes_red[idx] = d_morton_codes[first]
    /\ \A i, j \in merge_done : i # j => SpanSlots(i) \cap SpanSlots(j) = {}
    /\ merge_done = Leafs =>
          \A t \in 0..(ntypes - 1) :
              UNION {SpanSlots(idx) : idx \in {x \in Leafs : GroupOf(x).t = t}} = Segment(t)

\* every leaf is merged; a type with a full leaf followed by a leaf of one
\* particle stands before a type whose only leaf is full
C15_Witness ==
    /\ merge_done = Leafs
    /\ ntypes = 2
    /\ d_num_per_type = << PARTICLES_PER_LEAF + 1, PARTICLES_PER_LEAF >>
    /\ d_tree_aabbs[1].lower[4] = 1
    /\ d_tree_aabbs[2].lower[4] = PARTICLES_PER_LEAF

(***************************************************************************)
(* expandBits and the combination of the three expanded bins, called on    *)
(* their own for every 10-bit value                                        *)
(***************************************************************************)
\* bins paired with the expanded one: none set, lowest, alternating, all set
BinSamples == {0, 1, 682, MORTON_CODE_N_BINS - 1}

\* lines 263-266 for the bins (ib, jb, kb)
ExpandCall ==
    /\ call_result = << >>
    /\ call_result' = [expanded |-> AsInt(expandBits(<< 0, call_args[1] >>)),
                       code |-> AsInt(MortonCode(call_args[1], call_args[2], call_args[3]))]
    /\ UNCHANGED <<buildVars, travVars, mortonVars, hier_span, sortVars, mergeVars, call_args>>

InitExpand ==
    /\ call_args \in (0..(MORTON_CODE_N_BINS - 1)) \X BinSamples \X BinSamples
    /\ call_result = << >>
    /\ ntypes = 0
    /\ BuildIdle /\ ParticlesIdle /\ SearchIdle /\ MortonIdle
    /\ hier_span = << >> /\ SortIdle /\ MergeIdle

NextExpand == ExpandCall

SpecExpand == InitExpand /\ [][NextExpand]_vars

\* bit n of a non-negative number
Bit(x, n) == (x \div (2^n)) % 2

\* C28: for v in 0..1023 expandBits(v) has bit 3k set exactly when bit k of v
\* is set and every other bit clear, and expand(i)*4 + expand(j)*2 + expand(k)
\* has bit 3k+2 from i, bit 3k+1 from j and bit 3k from k, so the three bins
\* can be read back from the code
C28_ExpandInterleaves ==
    call_result # << >> =>
        /\ call_result.expanded >= 0 /\ call_result.expanded < 2^30
        /\ \A n \in 0..29 :
              Bit(call_result.expanded, n)
                  = (IF n % 3 = 0 THEN Bit(call_args[1], n \div 3) ELSE 0)
        /\ call_result.code >= 0 /\ call_result.code < 2^30
        /\ \A n \in 0..29 :
              Bit(call_result.code, n) = Bit(call_args[3 - (n % 3)], n \div 3)

\* the largest bin was expanded and combined with the alternating bin
C28_Witness ==
    /\ call_result # << >>
    /\ call_args = << MORTON_CODE_N_BINS - 1, 682, 1 >>
    /\ call_result.expanded = 153391689

(***************************************************************************)
(* findSplit called on its own on non-decreasing code arrays               *)
(***************************************************************************)
NonDecreasing(codes) ==
    \A a, b \in DOMAIN codes : a < b => codes[a] <= codes[b]

SplitCall ==
    /\ call_result = << >>
    /\ call_result' = [split |-> findSplit(call_args.codes, call_args.first, call_args.last)]
    /\ UNCHANGED <<buildVars, travVars, mortonVars, hier_span, sortVars, mergeVars, call_args>>

InitSplit ==
    /\ \E n \in 2..MaxSplitLen :
       \E codes \in {c \in [0..(n - 1) -> 0..MaxSplitCode] : NonDecreasing(c)} :
       \E first, last \in 0..(n - 1) :
          /\ first < last
          /\ call_args = [codes |-> codes, first |-> first, last |-> last]
    /\ call_result = << >>
    /\ ntypes = 0
    /\ BuildIdle /\ ParticlesIdle /\ SearchIdle /\ MortonIdle
    /\ hier_span = << >> /\ SortIdle /\ MergeIdle

NextSplit == SplitCall

SpecSplit == InitSplit /\ [][NextSplit]_vars

\* number of leading bits two codes share
CommonBits(a, b) == Clz(Xor(a, b))

\* the split a scan over [first, last - 1] finds
ScanSplit(codes, first, last) ==
    IF codes[first] = codes[last] THEN (first + last) \div 2
    ELSE CHOOSE s \in first..(last - 1) :
            /\ CommonBits(codes[first], codes[s]) > CommonBits(codes[first], codes[last])
            /\ \A x \in (s + 1)..(last - 1) :
                  ~(CommonBits(codes[first], codes[x]) > CommonBits(codes[first], codes[last]))

\* C24: for a non-decreasing code array and first < last findSplit returns
\* first <= s < last; with different end codes s is the largest index of
\* [first, last - 1] whose code shares more leading bits with code[first]
\* than code[last] does, with equal end codes the midpoint
C24_FindSplit ==
    call_result # << >> =>
        /\ call_args.first <= call_result.split
        /\ call_result.split < call_args.last
        /\ call_result.split = ScanSplit(call_args.codes, call_args.first, call_args.last)

\* a call on a range of different end codes whose split is neither end of the
\* range nor its midpoint, the array holding equal codes as well
C24_Witness ==
    /\ call_result # << >>
    /\ call_args.codes[call_args.first] # call_args.codes[call_args.last]
    /\ call_result.split > call_args.first + 1
    /\ call_result.split < call_args.last - 1
    /\ call_result.split # (call_args.first + call_args.last) \div 2
    /\ \E a \in DOMAIN call_args.codes :
          a + 1 \in DOMAIN call_args.codes /\ call_args.codes[a] = call_args.codes[a + 1]

(***************************************************************************)
(* delta called on its own for three indices of one leaf span              *)
(***************************************************************************)
DeltaCall ==
    /\ call_result = << >>
    /\ LET codes == call_args.codes
           lo == call_args.min_idx
           hi == call_args.max_idx
       IN call_result' =
              [ik |-> delta(codes, call_args.i, call_args.k, lo, hi),
               ij |-> delta(codes, call_args.i, call_args.j, lo, hi),
               jk |-> delta(codes, call_args.j, call_args.k, lo, hi)]
    /\ UNCHANGED <<buildVars, travVars, mortonVars, hier_span, sortVars, mergeVars, call_args>>

InitDelta ==
    /\ \E n \in 3..MaxSplitLen :
       \E codes \in {c \in [0..(n - 1) -> 0..MaxSplitCode] : NonDecreasing(c)} :
       \E i, j, k \in 0..(n - 1) :
          /\ i < j /\ j < k
          /\ call_args = [codes |-> codes, i |-> i, j |-> j, k |-> k,
                          min_idx |-> 0, max_idx |-> n - 1]
    /\ call_result = << >>
    /\ ntypes = 0
    /\ BuildIdle /\ ParticlesIdle /\ SearchIdle /\ MortonIdle
    /\ hier_span = << >> /\ SortIdle /\ MergeIdle

NextDelta == DeltaCall

SpecDelta == InitDelta /\ [][NextDelta]_vars

\* C26: for a non-decreasing code array and i < j < k of one leaf span,
\* delta(i, k) <= min(delta(i, j), delta(j, k)), also when codes are equal
\* and the value comes from the indices
C26_DeltaMonotone ==
    call_result # << >> =>
        /\ call_result.ik <= call_result.ij
        /\ call_result.ik <= call_result.jk

\* the first internal node of type t's block
FirstNode(t) == LeafHead(d_num_per_type, t) - t

\* the hierarchy threads that stored their own index into their own parent slot
SelfParented(t) ==
    {n \in TypeNodes(t) : << "node_parents", n, n >> \in hier_writes}

\* C23: for every type with at least two leaves the node that records itself
\* as its own parent is the first internal node of the type's block, the
\* range it determines is the whole leaf span of the type, and no other
\* hierarchy thread writes its parent slot
C23_RootIsFirstNode ==
    HierarchyDone =>
        \A t \in Types :
            Cardinality(TypeLeafs(t)) > 1 =>
                /\ SelfParented(t) = {FirstNode(t)}
                /\ \E h \in {HierNode(FirstNode(t))} :
                      /\ h.first = LeafHead(d_num_per_type, t)
                      /\ h.last = LeafHead(d_num_per_type, t + 1) - 1
                /\ \A w \in hier_writes :
                      (w[1] = "node_parents" /\ w[2] = FirstNode(t)) => w[3] = FirstNode(t)
                /\ d_node_parents[FirstNode(t)] = FirstNode(t)

\* the range the internal node at leaf position pos of h's type determines
RangeAt(h, pos) == determineRange(d_morton_codes_red, h.origin, h.end, pos)

\* C25: for every internal node with range [first, last] and split s, an
\* internal left child is node s and determines the range [first, s] for
\* itself, an internal right child is node s + 1 and determines [s + 1, last]
C25_ChildRanges ==
    \A idx \in hier_done :
        \E h \in {HierNode(idx)} :
            /\ h.first <= h.split /\ h.split < h.last
            /\ ~h.left_leaf
                  => /\ d_node_children[idx][1] = 2 * (h.split - h.cur_type)
                     /\ RangeAt(h, h.split) = << h.first, h.split >>
            /\ ~h.right_leaf
                  => /\ d_node_children[idx][2] = 2 * (h.split + 1 - h.cur_type)
                     /\ RangeAt(h, h.split + 1) = << h.split + 1, h.last >>

\* the internal nodes whose box is stored in this step
JustWritten == {p \in DOMAIN aabb_nwrites : aabb_nwrites'[p] # aabb_nwrites[p]}

\* the threads that store a box in this step
Writers(p) == {idx \in DOMAIN bpc : << p, idx >> \in aabb_writes' /\ bpc[idx] = "merge"
                                     /\ cur_parent[idx] = p /\ bpc'[idx] # "merge"}

\* a child word names a leaf, or an internal node whose box is already stored
ChildFinal(c) == c % 2 = 1 \/ aabb_nwrites[c \div 2] >= 1

\* C21: a thread that stores the merged box of node p is one whose increment
\* of p's counter returned 1; at that step both children of p hold their
\* final boxes (a leaf its merge box, an internal node the box stored earlier
\* in this pass), the slot the writer reads for its sibling is such a child's
\* slot, and no node is stored after a node that has it as a child
C21_WriterIsSecondArrival ==
    [][\A p \in JustWritten :
          /\ \E idx \in Writers(p) :
                /\ lock_key[idx] = 1
                /\ SiblingSlot(d_node_children[p], cur_child[idx])
                      \in {ChildSlot(d_node_children[p][k]) : k \in 1..2}
                /\ cur_child[idx] \in {d_node_children[p][k] : k \in 1..2}
          /\ \A k \in 1..2 : ChildFinal(d_node_children[p][k])
          /\ \A q \in InternalNodes :
                (d_node_children[q][1] = 2 * p \/ d_node_children[q][2] = 2 * p)
                    => aabb_nwrites[q] = 0]_vars

\* the leaves that are the only leaf of their type
SingleLeafs == {l \in Leafs : LeafCount(d_num_per_type, LeafType(d_num_per_type, l, 0)) = 1}

\* the propagation threads that take a step
Stepping == {l \in DOMAIN bpc : bpc'[l] # bpc[l]}

\* C29: the hierarchy kernel writes no parent for the only leaf of a type,
\* the propagation thread of such a leaf increments no counter and stores no
\* box, and the parent pointer that the thread of any other leaf reads was
\* written by the hierarchy kernel in this rebuild
C29_SingleLeafUntouched ==
    [][\A l \in Stepping :
          IF l \in SingleLeafs
          THEN /\ \A w \in hier_writes : ~(w[1] = "leaf_parents" /\ w[2] = l)
               /\ d_node_locks' = d_node_locks
               /\ aabb_writes' = aabb_writes
          ELSE bpc[l] = "start"
                  => \E w \in hier_writes : w[1] = "leaf_parents" /\ w[2] = l]_vars

(***************************************************************************)
(* The stackless loop over the nodes of one tree, one iteration a step.    *)
(* call_args holds the node array of the tree, the size of the subtree     *)
(* that starts at each position of the depth-first layout and the query    *)
(* box; call_result is the sequence of positions examined so far.          *)
(***************************************************************************)
MaxWalkNodes == 5

\* sizes [position -> number of nodes of the subtree that starts there] of the
\* depth-first layouts of the binary trees with n nodes
Layouts(n) ==
    {sz \in [0..(n - 1) -> 1..n] :
        /\ sz[0] = n
        /\ \A p \in 0..(n - 1) :
              \/ sz[p] = 1
              \/ /\ p + 1 < n
                 /\ p + 1 + sz[p + 1] < n
                 /\ sz[p] = 1 + sz[p + 1] + sz[p + 1 + sz[p + 1]]}

\* lines 766-771 for the node at position p
WalkHit(p) ==
    Overlaps(call_args.aabb_upper, call_args.aabb_lower,
             call_args.bounds[p].upper, call_args.bounds[p].lower)

\* the position the loop is at
WalkCursor ==
    IF call_result = << >> THEN 0
    ELSE LET p == call_result[Len(call_result)]
         IN NextNode(p, WalkHit(p), call_args.bounds[p].upper)

\* lines 755-809: one iteration of the loop
WalkStep ==
    /\ \E cur_node_idx \in {WalkCursor} :
          /\ cur_node_idx < call_args.num_nodes
          /\ call_result' = Append(call_result, cur_node_idx)
    /\ UNCHANGED <<buildVars, travVars, mortonVars, hier_span, sortVars, mergeVars, call_args>>

InitWalk ==
    /\ \E n \in 1..MaxWalkNodes :
       \E sz \in Layouts(n) :
       \E far \in SUBSET (0..(n - 1)), more \in SUBSET (0..(n - 1)) :
          call_args =
             [num_nodes |-> n,
              size |-> sz,
              aabb_upper |-> << 1, 1, 1 >>,
              aabb_lower |-> << 0 - 1, 0 - 1, 0 - 1 >>,
              bounds |-> [p \in 0..(n - 1) |->
                            LET x == IF p \in far THEN 3 ELSE 0
                                skip == sz[p] - 1 + (IF p \in more THEN 1 ELSE 0)
                            IN [upper |-> << x, 0, 0, skip >>,
                                lower |-> << x, 0, 0, IF sz[p] = 1 THEN 1 ELSE 0 >>]]]
    /\ call_result = << >>
    /\ ntypes = 0
    /\ BuildIdle /\ ParticlesIdle /\ SearchIdle /\ MortonIdle
    /\ hier_span = << >> /\ SortIdle /\ MergeIdle

NextWalk == WalkStep

SpecWalk == InitWalk /\ [][NextWalk]_vars

\* the positions examined so far, followed by the position the loop is at
WalkTrail == Append(call_result, WalkCursor)

\* position k of the trail is a node that did not overlap
WalkMiss(k) == ~WalkHit(WalkTrail[k])

\* the first position after the subtree that starts at p
PastSubtree(p) == p + call_args.size[p]

\* C27 as stated: after a node that does not overlap and whose skip value is
\* the number of nodes of its subtree (the node itself included), the loop is
\* at the first position after the subtree; after a node that overlaps it is
\* at the next position
C27_SkipIsSubtreeSize ==
    \A k \in 1..Len(call_result) :
        LET p == WalkTrail[k]
        IN IF WalkMiss(k)
           THEN call_args.bounds[p].upper[4] = call_args.size[p]
                   => WalkTrail[k + 1] = PastSubtree(p)
           ELSE WalkTrail[k + 1] = p + 1

\* C27: after a node that does not overlap and whose skip value is the number
\* of nodes below it (the size of its subtree less one), the loop is at the
\* first position after the subtree, so that no node of the subtree is
\* examined later and no node outside it is passed over; after a node that
\* overlaps it is at the next position
C27_SkipLandsPastSubtree ==
    \A k \in 1..Len(call_result) :
        LET p == WalkTrail[k]
        IN IF WalkMiss(k)
           THEN call_args.bounds[p].upper[4] = call_args.size[p] - 1
                   => /\ WalkTrail[k + 1] = PastSubtree(p)
                      /\ \A m \in (k + 1)..Len(WalkTrail) : WalkTrail[m] >= PastSubtree(p)
           ELSE WalkTrail[k + 1] = p + 1

\* the walk missed an internal node whose skip value is the number of nodes
\* below it and went on to examine the node after its subtree
C27_Witness ==
    \E k \in 1..(Len(call_result) - 1) :
        LET p == call_result[k]
        IN /\ WalkMiss(k)
           /\ call_args.size[p] >= 3
           /\ call_args.bounds[p].upper[4] = call_args.size[p] - 1
           /\ call_result[k + 1] = PastSubtree(p)
           /\ \E m \in 1..(k - 1) : ~WalkMiss(m)

\* the images other than the primary one through which particle i is within
\* the list cutoff of itself
OwnImages(i) == {c \in 1..(nimages - 1) : InCutoff(i, i, c)}

\* C30: a finished thread has counted its own particle through no image, the
\* primary one or a shifted one, and none of the list entries it stored
\* holds its own particle
C30_NeverOwnNeighbor ==
    \A i \in Traversed :
        /\ \A c \in 0..(nimages - 1) : << i, c >> \notin Range(counted[i])
        /\ \A x \in stored[i] : d_nlist[x] # i

\* a finished thread of a particle that lies within the cutoff of a shifted
\* image of itself, and that has found and stored another neighbour
C30_Witness ==
    \E i \in Traversed :
        /\ OwnImages(i) # {}
        /\ counted[i] # << >>
        /\ stored[i] # {}

(***************************************************************************)
(* The propagation pass on its own: gpu_nlist_bubble_aabbs is given parent *)
(* and children arrays of any content, and counters of any content.        *)
(***************************************************************************)
\* the node ids the parent arrays may hold: the internal nodes of three
\* leaves and one slot that the memset of the counters does not reach
ParentSet == {0, 1, Cap - 1}

\* what the counters may hold before the memset; -1 is 0xffffffff
LockSet == {0 - 1, 0, 1}

InitBubble ==
    /\ ntypes \in 1..Min(MaxTypes, 2)
    /\ d_num_per_type = (IF ntypes = 1 THEN << 3 * PARTICLES_PER_LEAF - 1 >>
                         ELSE << 2 * PARTICLES_PER_LEAF - 1, PARTICLES_PER_LEAF - 1 >>)
    /\ nleafs = TotalLeafs(d_num_per_type, ntypes)
    /\ d_morton_codes_red = [l \in 0..(nleafs - 1) |-> 0]
    /\ phase = "hierarchy"
    /\ hier_done = InternalNodes
    /\ hier_writes = {}
    /\ \E leaf_par \in [0..(nleafs - 1) -> ParentSet], node_par \in [ParentSet -> ParentSet] :
          /\ d_leaf_parents = [i \in 0..(Cap - 1) |-> IF i < nleafs THEN leaf_par[i] ELSE 0]
          /\ d_node_parents = [i \in 0..(Cap - 1) |-> IF i \in ParentSet THEN node_par[i] ELSE 0]
    /\ d_node_children = [i \in 0..(Cap - 1) |-> StaleChildren(1)]
    /\ \E s \in LockSet : d_node_locks = [i \in 0..(Cap - 1) |-> s]
    /\ d_tree_aabbs = [i \in 0..(2 * Cap - 1) |->
                         IF i < nleafs THEN LeafBox(1, i, LeafNp(d_num_per_type, i))
                         ELSE StaleBox(1)]
    /\ aabb_writes = {}
    /\ aabb_nwrites = [i \in 0..(Cap - 1) |-> 0]
    /\ bpc = [l \in 0..(nleafs - 1) |-> "start"]
    /\ cur_child = [l \in 0..(nleafs - 1) |-> 0]
    /\ cur_parent = [l \in 0..(nleafs - 1) |-> 0]
    /\ cur_box = [l \in 0..(nleafs - 1) |-> StaleBox(0)]
    /\ lock_key = [l \in 0..(nleafs - 1) |-> 0]
    /\ ParticlesIdle
    /\ SearchIdle
    /\ MortonIdle
    /\ StageIdle

NextBubble ==
    \/ BubbleLaunch
    \/ \E idx \in 0..(Cap - 1) : BubbleStart(idx)
    \/ \E idx \in DOMAIN bpc : BubbleAdd(idx)
    \/ \E idx \in DOMAIN bpc : BubbleMerge(idx)

SpecBubble == InitBubble /\ [][NextBubble]_vars

\* no thread of the kernel waits for another one, so a launched thread that
\* can take a step is run: as long as some step is possible one is taken
SpecBubbleFair == SpecBubble /\ WF_vars(NextBubble)

\* the increments of node p's counter that have returned 1 so far: the
\* merges stored and the threads that hold the key and have yet to store
KeyOnes(p) ==
    aabb_nwrites[p] + Cardinality({l \in DOMAIN bpc : bpc[l] = "merge" /\ cur_parent[l] = p})

\* the nodes a thread has merged so far
MergedBy(l) == {p \in DOMAIN aabb_nwrites : << p, l >> \in aabb_writes}

\* C22: whatever the parent, children and counter arrays hold, the increment
\* of a node's counter returns 1 at most once in the pass, a thread is in the
\* merge branch only with a key of 1, and under every interleaving every
\* propagation thread finishes
C22_PropagationTerminates ==
    /\ [](\A p \in DOMAIN aabb_nwrites : KeyOnes(p) <= 1)
    /\ [](\A l \in DOMAIN bpc : bpc[l] = "merge" => lock_key[l] = 1)
    /\ <>[]BubbleDone

\* a finished pass over arrays in which two nodes are each other's parent,
\* where one thread went round and merged both
C22_Witness ==
    /\ BubbleDone
    /\ d_node_parents[0] = 1 /\ d_node_parents[1] = 0
    /\ \E l \in DOMAIN bpc : {0, 1} \subseteq MergedBy(l)

=============================================================================
